---- MODULE Spec2Model ----
(***************************************************************************)
(* Digital Water Curtain, ESP32 controller firmware v4.1 (the sketch       *)
(* emitted by generateInoCode in src/unnamed/part_006): the persisted      *)
(* configuration record, the boot dispatch into AP_SETUP or                *)
(* STA_OPERATIONAL, the provisioning form, the WebSocket control channel   *)
(* and the playback tick of loop().                                        *)
(*                                                                         *)
(* Handlers are atomic steps (the single control loop of the design);      *)
(* ESP.restart() re-initialises every global and keeps the EEPROM.         *)
(* C int arithmetic is modelled on the bounded values the inputs below     *)
(* produce, where no 32-bit overflow occurs; the millisecond clock is an   *)
(* unsigned counter of ClockBits bits.                                     *)
(* SpecStore adds power losses during EEPROM.commit(), SpecAlloc a failing *)
(* operator new, SpecShift the pins of writeShiftRegisters().              *)
(***************************************************************************)
EXTENDS Integers, Sequences, FiniteSets, TLC

VARIABLES
    eeprom,             \* the Configuration record stored at EEPROM offset 0
    config,             \* Configuration config (RAM)
    BYTES_PER_ROW,      \* int BYTES_PER_ROW
    patternBuffer,      \* byte patternBuffer[PATTERN_BUFFER_SIZE]
    leds,               \* CRGB* leds: NullPtr or the array of colours
    numPatternRows,     \* int numPatternRows
    currentPatternRow,  \* int currentPatternRow
    lastUpdateTime,     \* unsigned long lastUpdateTime
    animationSpeed,     \* int animationSpeed
    isPlaying,          \* bool isPlaying
    mode,               \* where the boot stands: RESET, STA_CONNECT, AP_SETUP, STA_OPERATIONAL, NO_SERVICE
    retries,            \* int retries of setupSTA
    wifiConnected,      \* WiFi.status() == WL_CONNECTED
    now,                \* millis()
    shiftRegisters,     \* the row last latched into the shift-register chain
    strip,              \* the colours last flushed by FastLED.show()
    httpStatus,         \* status code of the last HTTP response sent (0: none yet)
    serial,             \* the line printed last on Serial
    restartCause,       \* why the current boot started
    restarts,           \* how many times the device has restarted since power-on
    wsClient,           \* a client is connected to the WebSocket /ws
    driver,             \* writeShiftRegisters in progress: the pins and the chain
    browser             \* the browser controller: its socket, its React state, its timers

vars == << eeprom, config, BYTES_PER_ROW, patternBuffer, leds, numPatternRows,
           currentPatternRow, lastUpdateTime, animationSpeed, isPlaying, mode,
           retries, wifiConnected, now, shiftRegisters, strip, httpStatus,
           serial, restartCause, restarts, wsClient, driver, browser >>

(***************************************************************************)
(* Program constants and model bounds.                                     *)
(***************************************************************************)
CONFIG_MAGIC == 1146569542          \* 0x44574346 "DWCF"
BITS_PER_BYTE == 8
DefaultBytesPerRow == 2
DefaultAnimationSpeed == 100
RetryBudget == 20

\* Scaled sizes: the sketch has PATTERN_BUFFER_SIZE 8192 and char[64] fields.
PATTERN_BUFFER_SIZE == 3
FieldSize == 3
\* Width of the millisecond counter (the ESP32's unsigned long has 32 bits).
ClockBits == 8
\* Restarts followed after power-on.
MaxRestarts == 2

ClockModulus == 2 ^ ClockBits

\* CRGB* leds = nullptr: the pointer to no array (an allocated array is not empty)
NullPtr == << >>
Black == << 0, 0, 0 >>

\* The browser controller before anything was clicked: no socket, nothing in the
\* sequence, no timer pending, nothing on the way to the device.
BrowserIdle ==
    [ready |-> FALSE, connecting |-> FALSE, isConnected |-> FALSE, isPlaying |-> FALSE,
     isUploading |-> FALSE, timer |-> "none", patterns |-> << >>,
     captured |-> << >>, wire |-> << >>, uploadSent |-> << >>]

(***************************************************************************)
(* Bytes, C strings and number parsing.                                    *)
(***************************************************************************)
Bit(b, k) == (b \div (2 ^ k)) % 2

\* bitSet(value, bit): value |= (1UL << bit)
bitSet(b, k) == IF Bit(b, k) = 1 THEN b ELSE b + 2 ^ k

ZeroBytes(n) == [k \in 0 .. n - 1 |-> 0]

\* A char array of FieldSize bytes, indices 1 .. FieldSize.
ZeroField == [i \in 1 .. FieldSize |-> 0]

\* strncpy(dst, src, n): copies src, pads with NUL up to n, leaves dst[n ..] alone.
strncpy(dst, src, n) ==
    [i \in 1 .. FieldSize |->
        IF i <= n THEN (IF i <= Len(src) THEN src[i] ELSE 0) ELSE dst[i]]

\* The C string an array holds: the bytes before the first NUL ("unterminated"
\* when the array holds none).
RECURSIVE CStrFrom(_, _)
CStrFrom(arr, i) ==
    IF i > Len(arr) THEN << >>
    ELSE IF arr[i] = 0 THEN << >>
    ELSE << arr[i] >> \o CStrFrom(arr, i + 1)

Terminated(arr) == \E i \in 1 .. Len(arr) : arr[i] = 0

CStr(arr) == CStrFrom(arr, 1)

IsDigit(c) == c >= 48 /\ c <= 57

RECURSIVE DigitsFrom(_, _, _)
DigitsFrom(s, i, acc) ==
    IF i > Len(s) THEN acc
    ELSE IF IsDigit(s[i]) THEN DigitsFrom(s, i + 1, acc * 10 + (s[i] - 48))
    ELSE acc

\* String::toInt() (atol): optional sign, then the leading decimal digits; 0 when none.
toInt(s) ==
    IF Len(s) > 0 /\ s[1] = 45 THEN 0 - DigitsFrom(s, 2, 0)
    ELSE DigitsFrom(s, 1, 0)

HexVal(c) ==
    IF IsDigit(c) THEN c - 48
    ELSE IF c >= 65 /\ c <= 70 THEN c - 55
    ELSE IF c >= 97 /\ c <= 102 THEN c - 87
    ELSE 0 - 1

RECURSIVE HexFrom(_, _, _)
HexFrom(s, i, acc) ==
    IF i > Len(s) THEN acc
    ELSE IF HexVal(s[i]) >= 0 THEN HexFrom(s, i + 1, acc * 16 + HexVal(s[i]))
    ELSE acc

\* strtol(&colorStr[1], NULL, 16): the hexadecimal digits after the first character.
strtol16(colorStr) == HexFrom(colorStr, 2, 0)

\* Mutant of the colour conversion: the channels in the order blue, green, red.
ColorOf_Bgr(number) ==
    << number % 256, (number \div 256) % 256, (number \div 65536) % 256 >>

\* CRGB((number >> 16) & 0xFF, (number >> 8) & 0xFF, number & 0xFF)
ColorOf(number) ==
    << (number \div 65536) % 256, (number \div 256) % 256, number % 256 >>

\* doc[key] read as an int: 0 when the member is absent.
JsonInt(doc, key) == IF key \in DOMAIN doc THEN doc[key] ELSE 0

\* doc["pattern"].as<JsonArray>(): the empty array when the member is absent.
JsonArrayOf(doc, key) == IF key \in DOMAIN doc THEN doc[key] ELSE << >>

\* An int converted to unsigned long for the comparison in loop().
ToUnsigned(n) == n % ClockModulus

(***************************************************************************)
(* Persistent configuration store.                                         *)
(***************************************************************************)
\* memset(&blankConfig, 0, sizeof(Configuration)); configured = false; magic = 0
BlankConfig ==
    [magic |-> 0, ssid |-> ZeroField, password |-> ZeroField,
     numValves |-> 0, numLeds |-> 0, configured |-> FALSE]

\* saveConfiguration(): config.magic = CONFIG_MAGIC; EEPROM.put(0, config); commit.
\* The record written, which is also the new value of config.
saveConfiguration(cfg) == [cfg EXCEPT !.magic = CONFIG_MAGIC]

\* The test of loadConfiguration() that sends a stored record to clearConfiguration().
LoadRejects(stored) ==
    stored.magic # CONFIG_MAGIC \/ stored.numValves <= 0 \/ stored.numLeds <= 0

\* loadConfiguration(): EEPROM.get(0, config), then clearConfiguration() on a
\* rejected record. The value left both in config and in the EEPROM.
loadConfiguration(stored) == IF LoadRejects(stored) THEN BlankConfig ELSE stored

(***************************************************************************)
(* Hardware output driver.                                                 *)
(***************************************************************************)
\* The guard of setupHardware().
HardwareValid(cfg) == cfg.numValves > 0 /\ cfg.numLeds > 0

\* Mutant of the row width: the division rounds down.
BytesPerRowOf_Floor(numValves) == numValves \div BITS_PER_BYTE

\* BYTES_PER_ROW = (config.numValves + BITS_PER_BYTE - 1) / BITS_PER_BYTE
BytesPerRowOf(numValves) == (numValves + BITS_PER_BYTE - 1) \div BITS_PER_BYTE

\* Mutant of setupHardware(): BYTES_PER_ROW is not computed.
SetupBytesPerRow_Keep(cfg, old) == old

\* setupHardware(): BYTES_PER_ROW afterwards.
SetupBytesPerRow(cfg, old) ==
    IF HardwareValid(cfg) THEN BytesPerRowOf(cfg.numValves) ELSE old

\* setupHardware(): leds afterwards; the old array is deleted first, and the new
\* one is NullPtr when the guard fails or new CRGB[] yields no memory.
SetupLeds(cfg, allocOk) ==
    IF HardwareValid(cfg) /\ allocOk
    THEN [i \in 1 .. cfg.numLeds |-> Black]
    ELSE NullPtr

\* setupHardware(): FastLED.show() runs only when the array was allocated.
SetupStrip(cfg, allocOk, old) ==
    IF HardwareValid(cfg) /\ allocOk
    THEN [i \in 1 .. cfg.numLeds |-> Black]
    ELSE old

\* writeShiftRegisters(rowData): the BYTES_PER_ROW bytes rowData[0 .. BYTES_PER_ROW-1]
\* held by the chain once the latch has risen.
writeShiftRegisters(rowData) == [k \in 0 .. BYTES_PER_ROW - 1 |-> rowData[k]]

(***************************************************************************)
(* writeShiftRegisters() pin by pin. driver holds the level of LATCH_PIN,  *)
(* the shift stage of the chain (stage[p] is the bit p places from the     *)
(* data input; a chain of one register per byte of a row), the row being   *)
(* written, how many bits of it have been clocked out, and the log of the  *)
(* (byte index, bit index) pairs clocked out since the latch went low.     *)
(***************************************************************************)
ChainBits(bpr) == BITS_PER_BYTE * bpr

\* Before the first write: pinMode(LATCH_PIN, OUTPUT) leaves the pin low.
DriverIdle(bpr) ==
    [pc |-> "idle", latch |-> "LOW", stage |-> [p \in 0 .. ChainBits(bpr) - 1 |-> 0],
     rowData |-> << >>, clocked |-> 0, sent |-> << >>]

\* Mutant of the loop of writeShiftRegisters(): the bytes in ascending order.
ShiftOrder_Ascending(bpr) ==
    [n \in 1 .. ChainBits(bpr) |->
        << (n - 1) \div BITS_PER_BYTE, BITS_PER_BYTE - 1 - ((n - 1) % BITS_PER_BYTE) >>]

\* for (int i = BYTES_PER_ROW - 1; i >= 0; i--) shiftOut(.., MSBFIRST, rowData[i]):
\* the (byte index, bit index) pairs in the order they are clocked out.
ShiftOrder(bpr) ==
    [n \in 1 .. ChainBits(bpr) |->
        << bpr - 1 - ((n - 1) \div BITS_PER_BYTE),
           BITS_PER_BYTE - 1 - ((n - 1) % BITS_PER_BYTE) >>]

\* One clock pulse: every bit of the stage moves one place on, b enters at 0.
ClockIn(stage, b) ==
    [p \in DOMAIN stage |-> IF p = 0 THEN b ELSE stage[p - 1]]

\* The outputs of register k once the latch has risen: output q carries bit q.
LatchedByte(stage, k) ==
    LET RECURSIVE Sum(_)
        Sum(q) == IF q = BITS_PER_BYTE THEN 0
                  ELSE stage[k * BITS_PER_BYTE + q] * 2 ^ q + Sum(q + 1)
    IN  Sum(0)

\* digitalWrite(LATCH_PIN, LOW)
WriteBegin(rowData) ==
    /\ mode = "STA_OPERATIONAL"
    /\ driver.pc = "idle"
    /\ driver' = [driver EXCEPT !.pc = "shift", !.latch = "LOW", !.rowData = rowData,
                                 !.clocked = 0, !.sent = << >>]
    /\ UNCHANGED << browser, eeprom, config, BYTES_PER_ROW, leds, patternBuffer, numPatternRows,
                    currentPatternRow, lastUpdateTime, animationSpeed, isPlaying, mode, retries,
                    wifiConnected, now, shiftRegisters, strip, httpStatus, serial,
                    restartCause, restarts, wsClient >>

\* One bit of shiftOut(): the data pin takes the bit, the clock pulses.
ShiftOutBit ==
    /\ driver.pc = "shift"
    /\ driver.clocked < ChainBits(BYTES_PER_ROW)
    /\ LET next == ShiftOrder(BYTES_PER_ROW)[driver.clocked + 1]
           b == Bit(driver.rowData[next[1]], next[2])
       IN  driver' = [driver EXCEPT !.stage = ClockIn(driver.stage, b),
                                    !.clocked = driver.clocked + 1,
                                    !.sent = Append(driver.sent, next)]
    /\ UNCHANGED << browser, eeprom, config, BYTES_PER_ROW, leds, patternBuffer, numPatternRows,
                    currentPatternRow, lastUpdateTime, animationSpeed, isPlaying, mode, retries,
                    wifiConnected, now, shiftRegisters, strip, httpStatus, serial,
                    restartCause, restarts, wsClient >>

\* digitalWrite(LATCH_PIN, HIGH) after the loop: the outputs take the stage.
WriteEnd ==
    /\ driver.pc = "shift"
    /\ driver.clocked = ChainBits(BYTES_PER_ROW)
    /\ driver' = [driver EXCEPT !.pc = "idle", !.latch = "HIGH"]
    /\ shiftRegisters' = [k \in 0 .. BYTES_PER_ROW - 1 |-> LatchedByte(driver.stage, k)]
    /\ UNCHANGED << browser, eeprom, config, BYTES_PER_ROW, leds, patternBuffer, numPatternRows,
                    currentPatternRow, lastUpdateTime, animationSpeed, isPlaying, mode, retries,
                    wifiConnected, now, strip, httpStatus, serial, restartCause,
                    restarts, wsClient >>

(***************************************************************************)
(* Restart: every global takes its initial value again, the EEPROM and the *)
(* latched outputs stay.                                                   *)
(***************************************************************************)
GlobalsInitial ==
    /\ config' = BlankConfig
    /\ BYTES_PER_ROW' = DefaultBytesPerRow
    /\ patternBuffer' = ZeroBytes(PATTERN_BUFFER_SIZE)
    /\ leds' = NullPtr
    /\ numPatternRows' = 0
    /\ currentPatternRow' = 0
    /\ lastUpdateTime' = 0
    /\ animationSpeed' = DefaultAnimationSpeed
    /\ isPlaying' = FALSE

\* ESP.restart()
Restart(cause) ==
    /\ restarts < MaxRestarts
    /\ restarts' = restarts + 1
    /\ GlobalsInitial
    /\ mode' = "RESET"
    /\ retries' = 0
    /\ wifiConnected' = FALSE
    /\ now' = 0
    /\ wsClient' = FALSE
    /\ restartCause' = cause

playback == << patternBuffer, numPatternRows, currentPatternRow, lastUpdateTime,
               animationSpeed, isPlaying >>

(***************************************************************************)
(* Boot: setup(), setupAP(), setupSTA().                                   *)
(***************************************************************************)
\* setup(): load the record, mount SPIFFS, dispatch on config.configured.
Setup(spiffsOk, allocOk) ==
    /\ mode = "RESET"
    /\ LET cfg == loadConfiguration(eeprom) IN
        /\ eeprom' = cfg
        /\ config' = cfg
        /\ IF ~spiffsOk
           THEN /\ mode' = "NO_SERVICE"
                /\ serial' = "An Error has occurred while mounting SPIFFS"
                /\ UNCHANGED << browser, driver, BYTES_PER_ROW, leds, strip, retries >>
           ELSE IF cfg.configured
           THEN /\ mode' = "STA_CONNECT"
                /\ serial' = "Connecting to WiFi..."
                /\ BYTES_PER_ROW' = SetupBytesPerRow(cfg, BYTES_PER_ROW)
                /\ leds' = SetupLeds(cfg, allocOk)
                /\ strip' = SetupStrip(cfg, allocOk, strip)
                /\ retries' = RetryBudget
           ELSE /\ mode' = "AP_SETUP"
                /\ serial' = "Starting in AP Mode for configuration."
                /\ UNCHANGED << browser, driver, BYTES_PER_ROW, leds, strip, retries >>
    /\ UNCHANGED << browser, driver, playback, wifiConnected, now, shiftRegisters, httpStatus,
                    restartCause, restarts, wsClient >>

\* The network accepts the join while setupSTA() waits.
WifiJoin ==
    /\ mode = "STA_CONNECT"
    /\ ~wifiConnected
    /\ wifiConnected' = TRUE
    /\ UNCHANGED << browser, driver, eeprom, config, BYTES_PER_ROW, leds, playback, mode, retries, now,
                    shiftRegisters, strip, httpStatus, serial, restartCause, restarts, wsClient >>

\* setupSTA(): one turn of the wait loop, delay(500); retries--.
SetupSTAWait ==
    /\ mode = "STA_CONNECT"
    /\ ~wifiConnected
    /\ retries > 0
    /\ retries' = retries - 1
    /\ UNCHANGED << browser, driver, eeprom, config, BYTES_PER_ROW, leds, playback, mode, wifiConnected,
                    now, shiftRegisters, strip, httpStatus, serial, restartCause, restarts, wsClient >>

\* setupSTA() after the wait loop: without a connection clear the record and
\* restart; with one, register the control channel and start the server.
SetupSTAFinish ==
    /\ mode = "STA_CONNECT"
    /\ wifiConnected \/ retries = 0
    /\ IF ~wifiConnected
       THEN /\ eeprom' = BlankConfig
            /\ serial' = "Failed to connect to WiFi. Rebooting into AP mode."
            /\ Restart("join_failed")
            /\ UNCHANGED << browser, driver, shiftRegisters, strip, httpStatus >>
       ELSE /\ mode' = "STA_OPERATIONAL"
            /\ serial' = "Connected! IP Address: "
            /\ retries' = 0
            /\ UNCHANGED << browser, driver, eeprom, config, BYTES_PER_ROW, leds, playback,
                            wifiConnected, now, shiftRegisters, strip, httpStatus,
                            restartCause, restarts, wsClient >>

(***************************************************************************)
(* Provisioning form (AP_SETUP): POST /save.                               *)
(* A request is a function from the names of the form fields it carries to *)
(* their values (sequences of character codes).                            *)
(***************************************************************************)
hasParam(req, name) == name \in DOMAIN req

\* Mutant of the tests of handleSave(): the length of the ssid is not looked at.
SaveAccepts_AnySsid(req) ==
    /\ hasParam(req, "ssid") /\ hasParam(req, "valves") /\ hasParam(req, "leds")
    /\ toInt(req.valves) > 0 /\ toInt(req.leds) > 0

\* The two nested tests of handleSave(): the three required fields are present,
\* the ssid is not empty and both counts parse to a positive number.
SaveAccepts(req) ==
    /\ hasParam(req, "ssid") /\ hasParam(req, "valves") /\ hasParam(req, "leds")
    /\ Len(req.ssid) > 0 /\ toInt(req.valves) > 0 /\ toInt(req.leds) > 0

\* Mutant of the assignments of handleSave(): config.configured is left as it was.
SaveFields_Unconfigured(cfg, req) ==
    [cfg EXCEPT
        !.ssid = strncpy(cfg.ssid, req.ssid, FieldSize - 1),
        !.password = IF hasParam(req, "password")
                     THEN strncpy(cfg.password, req.password, FieldSize - 1)
                     ELSE [cfg.password EXCEPT ![1] = 0],
        !.numValves = toInt(req.valves),
        !.numLeds = toInt(req.leds)]

\* The fields handleSave() assigns to config before saveConfiguration().
SaveFields(cfg, req) ==
    [cfg EXCEPT
        !.ssid = strncpy(cfg.ssid, req.ssid, FieldSize - 1),
        !.password = IF hasParam(req, "password")
                     THEN strncpy(cfg.password, req.password, FieldSize - 1)
                     ELSE [cfg.password EXCEPT ![1] = 0],
        !.numValves = toInt(req.valves),
        !.numLeds = toInt(req.leds),
        !.configured = TRUE]

handleSave(req) ==
    /\ mode = "AP_SETUP"
    /\ IF SaveAccepts(req)
       THEN /\ eeprom' = saveConfiguration(SaveFields(config, req))
            /\ httpStatus' = 200
            /\ Restart("save")
            /\ UNCHANGED << browser, driver, shiftRegisters, strip, serial >>
       ELSE /\ httpStatus' = 400
            /\ UNCHANGED << browser, driver, eeprom, config, BYTES_PER_ROW, leds, playback, mode,
                            retries, wifiConnected, now, shiftRegisters, strip,
                            serial, restartCause, restarts, wsClient >>

(***************************************************************************)
(* Control channel (STA_OPERATIONAL): onWsEvent, one branch per action.    *)
(* A message is the parsed JSON document: a function from the names of the *)
(* members it carries to their values.                                     *)
(***************************************************************************)
\* WS_EVT_DATA reaches onWsEvent from a connected client of the running server.
ChannelOpen == mode = "STA_OPERATIONAL" /\ wsClient

\* WS_EVT_CONNECT
WsConnect ==
    /\ mode = "STA_OPERATIONAL"
    /\ ~wsClient
    /\ wsClient' = TRUE
    /\ serial' = "WebSocket client connected"
    /\ UNCHANGED << browser, driver, eeprom, config, BYTES_PER_ROW, leds, playback, mode, retries,
                    wifiConnected, now, shiftRegisters, strip, httpStatus,
                    restartCause, restarts >>

\* WS_EVT_DISCONNECT
WsDisconnect ==
    /\ ChannelOpen
    /\ wsClient' = FALSE
    /\ serial' = "WebSocket client disconnected"
    /\ UNCHANGED << browser, driver, eeprom, config, BYTES_PER_ROW, leds, playback, mode, retries,
                    wifiConnected, now, shiftRegisters, strip, httpStatus,
                    restartCause, restarts >>

\* The actions onWsEvent compares doc["action"] with.
KnownActions ==
    { "reboot_to_ap", "config", "play", "pause", "speed", "color", "load_pattern" }

\* Mutant of the dropping paths: the client is disconnected over the message.
WsDrop_Closes(msg) ==
    /\ ChannelOpen
    /\ IF msg.error THEN TRUE
       ELSE IF "action" \notin DOMAIN msg.doc THEN TRUE
       ELSE msg.doc.action \notin KnownActions
    /\ serial' = IF msg.error THEN "deserializeJson() failed: " ELSE serial
    /\ wsClient' = FALSE
    /\ UNCHANGED << browser, driver, eeprom, config, BYTES_PER_ROW, leds, playback, mode, retries,
                    wifiConnected, now, shiftRegisters, strip, httpStatus,
                    restartCause, restarts >>

\* WS_EVT_DATA that reaches no branch. A message is [error |-> TRUE] when
\* deserializeJson fails and [error |-> FALSE, doc |-> d] otherwise: a parse error
\* is logged, a document without action or with one no branch matches is left.
WsDrop(msg) ==
    /\ ChannelOpen
    /\ IF msg.error THEN TRUE
       ELSE IF "action" \notin DOMAIN msg.doc THEN TRUE
       ELSE msg.doc.action \notin KnownActions
    /\ serial' = IF msg.error THEN "deserializeJson() failed: " ELSE serial
    /\ UNCHANGED << browser, driver, eeprom, config, BYTES_PER_ROW, leds, playback, mode, retries,
                    wifiConnected, now, shiftRegisters, strip, httpStatus,
                    restartCause, restarts, wsClient >>

\* reboot_to_ap: clearConfiguration(); ESP.restart()
WsRebootToAp ==
    /\ ChannelOpen
    /\ eeprom' = BlankConfig
    /\ serial' = "Configuration cleared. Rebooting to AP mode."
    /\ Restart("reboot_to_ap")
    /\ UNCHANGED << browser, driver, shiftRegisters, strip, httpStatus >>

\* Mutant of the test of the config branch: equal counts are applied again.
ConfigApplies_AlsoEqual(newNumValves, newNumLeds) ==
    newNumValves > 0 /\ newNumLeds > 0

\* The test of the config branch.
ConfigApplies(newNumValves, newNumLeds) ==
    /\ newNumValves > 0 /\ newNumLeds > 0
    /\ (newNumValves # config.numValves \/ newNumLeds # config.numLeds)

\* Mutant of the config branch: saveConfiguration() sets the magic and stores nothing.
WsConfig_NoSave(doc, allocOk) ==
    LET newNumValves == JsonInt(doc, "valves")
        newNumLeds == JsonInt(doc, "leds")
        cfg == [config EXCEPT !.numValves = newNumValves, !.numLeds = newNumLeds]
    IN
    /\ ChannelOpen
    /\ IF ConfigApplies(newNumValves, newNumLeds)
       THEN /\ BYTES_PER_ROW' = SetupBytesPerRow(cfg, BYTES_PER_ROW)
            /\ leds' = SetupLeds(cfg, allocOk)
            /\ strip' = SetupStrip(cfg, allocOk, strip)
            /\ config' = saveConfiguration(cfg)
            /\ serial' = "Reconfigured"
            /\ UNCHANGED << browser, driver, eeprom, playback, mode, retries, wifiConnected,
                            now, shiftRegisters, httpStatus, restartCause, restarts,
                            wsClient >>
       ELSE UNCHANGED vars

\* config: new counts, setupHardware(), saveConfiguration(); otherwise nothing.
WsConfig(doc, allocOk) ==
    LET newNumValves == JsonInt(doc, "valves")
        newNumLeds == JsonInt(doc, "leds")
        cfg == [config EXCEPT !.numValves = newNumValves, !.numLeds = newNumLeds]
    IN
    /\ ChannelOpen
    /\ IF ConfigApplies(newNumValves, newNumLeds)
       THEN /\ BYTES_PER_ROW' = SetupBytesPerRow(cfg, BYTES_PER_ROW)
            /\ leds' = SetupLeds(cfg, allocOk)
            /\ strip' = SetupStrip(cfg, allocOk, strip)
            /\ config' = saveConfiguration(cfg)
            /\ eeprom' = saveConfiguration(cfg)
            /\ serial' = "Reconfigured"
            /\ UNCHANGED << browser, driver, playback, mode, retries, wifiConnected, now,
                            shiftRegisters, httpStatus, restartCause, restarts, wsClient >>
       ELSE UNCHANGED vars

\* config when new CRGB[config.numLeds] fails as the language has it: operator new
\* does not return, the exception (or abort() in a build without exceptions) ends
\* the program inside setupHardware(), before saveConfiguration(), and the chip
\* restarts.
WsConfigAbort(doc) ==
    /\ ChannelOpen
    /\ ConfigApplies(JsonInt(doc, "valves"), JsonInt(doc, "leds"))
    /\ Restart("panic")
    /\ serial' = "abort() was called"
    /\ UNCHANGED << browser, driver, eeprom, shiftRegisters, strip, httpStatus >>

\* Mutant of the play branch: the cursor is left where it is.
WsPlay_KeepCursor ==
    /\ ChannelOpen
    /\ isPlaying' = TRUE
    /\ UNCHANGED << browser, driver, eeprom, config, BYTES_PER_ROW, patternBuffer, leds, numPatternRows,
                    currentPatternRow, lastUpdateTime, animationSpeed, mode, retries,
                    wifiConnected, now, shiftRegisters, strip, httpStatus, serial,
                    restartCause, restarts, wsClient >>

\* play: isPlaying = true; currentPatternRow = 0
WsPlay ==
    /\ ChannelOpen
    /\ isPlaying' = TRUE
    /\ currentPatternRow' = 0
    /\ UNCHANGED << browser, driver, eeprom, config, BYTES_PER_ROW, patternBuffer, leds, numPatternRows,
                    lastUpdateTime, animationSpeed, mode, retries, wifiConnected, now,
                    shiftRegisters, strip, httpStatus, serial, restartCause, restarts, wsClient >>

\* Mutant of the pause branch: playback stops and no row is written.
WsPause_NoWrite(allocOk) ==
    /\ ChannelOpen
    /\ isPlaying' = FALSE
    /\ UNCHANGED << browser, driver, eeprom, config, BYTES_PER_ROW, patternBuffer, leds, numPatternRows,
                    currentPatternRow, lastUpdateTime, animationSpeed, mode, retries,
                    wifiConnected, now, shiftRegisters, strip, httpStatus, serial,
                    restartCause, restarts, wsClient >>

\* pause: isPlaying = false; a zeroed row of BYTES_PER_ROW bytes is written when
\* its allocation succeeds.
WsPause(allocOk) ==
    /\ ChannelOpen
    /\ isPlaying' = FALSE
    /\ shiftRegisters' = IF allocOk
                         THEN writeShiftRegisters(ZeroBytes(BYTES_PER_ROW))
                         ELSE shiftRegisters
    /\ UNCHANGED << browser, driver, eeprom, config, BYTES_PER_ROW, patternBuffer, leds, numPatternRows,
                    currentPatternRow, lastUpdateTime, animationSpeed, mode, retries,
                    wifiConnected, now, strip, httpStatus, serial, restartCause, restarts, wsClient >>

\* speed: animationSpeed = doc["value"]
WsSpeed(doc) ==
    /\ ChannelOpen
    /\ animationSpeed' = JsonInt(doc, "value")
    /\ UNCHANGED << browser, driver, eeprom, config, BYTES_PER_ROW, patternBuffer, leds, numPatternRows,
                    currentPatternRow, lastUpdateTime, isPlaying, mode, retries,
                    wifiConnected, now, shiftRegisters, strip, httpStatus, serial,
                    restartCause, restarts, wsClient >>

\* color: nothing without an LED array; otherwise every LED takes the parsed
\* colour and the strip is flushed. Without a "value" member colorStr is a null
\* pointer and strtol reads address 1: the load faults and the chip restarts.
WsColor(doc) ==
    /\ ChannelOpen
    /\ IF leds = NullPtr THEN UNCHANGED vars
       ELSE IF "value" \notin DOMAIN doc
       THEN /\ Restart("panic")
            /\ serial' = "Guru Meditation Error"
            /\ UNCHANGED << browser, driver, eeprom, shiftRegisters, strip, httpStatus >>
       ELSE LET number == strtol16(doc.value)
                shown == [i \in 1 .. config.numLeds |-> ColorOf(number)]
            IN  /\ leds' = shown
                /\ strip' = shown
                /\ UNCHANGED << browser, driver, eeprom, config, BYTES_PER_ROW, playback, mode,
                                retries, wifiConnected, now, shiftRegisters,
                                httpStatus, serial, restartCause, restarts, wsClient >>

\* Mutants of the size test: the row count compared with the capacity in bytes,
\* and a test that also turns away a pattern that fills the buffer exactly.
PatternTooLarge_RowsOnly(rows) == rows > PATTERN_BUFFER_SIZE

PatternTooLarge_Geq(rows) == rows * BYTES_PER_ROW >= PATTERN_BUFFER_SIZE

\* The size test of the load_pattern branch.
PatternTooLarge(rows) == rows * BYTES_PER_ROW > PATTERN_BUFFER_SIZE

\* Mutant of the inner loop: valve 0 in the most significant bit of its byte.
RECURSIVE PackRowFrom_Msb(_, _, _)
PackRowFrom_Msb(row, valveIndex, rowData) ==
    IF valveIndex >= Len(row) THEN rowData
    ELSE LET bytePos == valveIndex \div BITS_PER_BYTE
             bitPos == (BITS_PER_BYTE - 1) - (valveIndex % BITS_PER_BYTE)
         IN  PackRowFrom_Msb(row, valveIndex + 1,
                IF row[valveIndex + 1] /\ bytePos < BYTES_PER_ROW
                THEN [rowData EXCEPT ![bytePos] = bitSet(@, bitPos)]
                ELSE rowData)

\* The inner loop of load_pattern: the bits of one row, valve by valve.
RECURSIVE PackRowFrom(_, _, _)
PackRowFrom(row, valveIndex, rowData) ==
    IF valveIndex >= Len(row) THEN rowData
    ELSE LET bytePos == valveIndex \div BITS_PER_BYTE
             bitPos == valveIndex % BITS_PER_BYTE
         IN  PackRowFrom(row, valveIndex + 1,
                IF row[valveIndex + 1] /\ bytePos < BYTES_PER_ROW
                THEN [rowData EXCEPT ![bytePos] = bitSet(@, bitPos)]
                ELSE rowData)

\* byte rowData[BYTES_PER_ROW] = {0}, filled by the inner loop.
PackRow(row) == PackRowFrom(row, 0, ZeroBytes(BYTES_PER_ROW))

\* The outer loop of load_pattern: memcpy of each packed row at bufferIndex.
RECURSIVE StoreRows(_, _, _)
StoreRows(pattern, i, buffer) ==
    IF i > Len(pattern) THEN buffer
    ELSE LET bufferIndex == (i - 1) * BYTES_PER_ROW
             rowData == PackRow(pattern[i])
         IN  StoreRows(pattern, i + 1,
                [k \in DOMAIN buffer |->
                    IF k >= bufferIndex /\ k < bufferIndex + BYTES_PER_ROW
                    THEN rowData[k - bufferIndex]
                    ELSE buffer[k]])

\* Mutant of the load_pattern branch: an upload also stops playback.
WsLoadPattern_Stops(doc) ==
    LET pattern == JsonArrayOf(doc, "pattern") IN
    /\ ChannelOpen
    /\ isPlaying' = FALSE
    /\ UNCHANGED << browser, driver, eeprom, config, BYTES_PER_ROW, leds, currentPatternRow,
                    lastUpdateTime, animationSpeed, mode, retries,
                    wifiConnected, now, shiftRegisters, strip, httpStatus,
                    restartCause, restarts, wsClient >>
    /\ IF PatternTooLarge(Len(pattern))
       THEN /\ numPatternRows' = 0
            /\ serial' = "Error: Pattern too large for buffer!"
            /\ UNCHANGED patternBuffer
       ELSE /\ numPatternRows' = Len(pattern)
            /\ serial' = "Loaded pattern"
            /\ patternBuffer' = StoreRows(pattern, 1, patternBuffer)

\* load_pattern: the row count is taken from the message first; a pattern that
\* is too large zeroes it and returns, any other is packed into the buffer.
WsLoadPattern(doc) ==
    LET pattern == JsonArrayOf(doc, "pattern") IN
    /\ ChannelOpen
    /\ UNCHANGED << browser, driver, eeprom, config, BYTES_PER_ROW, leds, currentPatternRow,
                    lastUpdateTime, animationSpeed, isPlaying, mode, retries,
                    wifiConnected, now, shiftRegisters, strip, httpStatus,
                    restartCause, restarts, wsClient >>
    /\ IF PatternTooLarge(Len(pattern))
       THEN /\ numPatternRows' = 0
            /\ serial' = "Error: Pattern too large for buffer!"
            /\ UNCHANGED patternBuffer
       ELSE /\ numPatternRows' = Len(pattern)
            /\ serial' = "Loaded pattern"
            /\ patternBuffer' = StoreRows(pattern, 1, patternBuffer)

(***************************************************************************)
(* loop(): the playback tick, and the passing of time.                     *)
(***************************************************************************)
\* Mutant of the subtraction: the difference is taken in signed arithmetic.
Elapsed_Signed == now - lastUpdateTime

\* millis() - lastUpdateTime, in unsigned arithmetic
Elapsed == (now - lastUpdateTime) % ClockModulus

\* The condition of the tick.
TickDue ==
    /\ config.configured
    /\ isPlaying /\ numPatternRows > 0 /\ Elapsed > ToUnsigned(animationSpeed)

\* Mutant of the advance: the cursor moves on by two rows.
NextRow_Skip(row, rows) == (row + 2) % rows

\* The cursor after a tick of the .ino revision: currentPatternRow++, then back to
\* 0 when it has reached numPatternRows.
NextRowWrap(row, rows) == IF row + 1 >= rows THEN 0 ELSE row + 1

\* The cursor after a tick.
NextRow(row, rows) == (row + 1) % rows

\* &buffer[offset] read as a row: the BYTES_PER_ROW bytes from offset on.
RowOfBuffer(buffer, offset) == [k \in 0 .. BYTES_PER_ROW - 1 |-> buffer[offset + k]]

\* The row of the buffer the tick hands to writeShiftRegisters.
RowAt(offset) == RowOfBuffer(patternBuffer, offset)

\* Mutant of the tick: the time of the last advance is not taken.
loop_KeepsTime ==
    /\ mode \in {"AP_SETUP", "STA_OPERATIONAL", "NO_SERVICE"}
    /\ TickDue
    /\ LET currentRowOffset == currentPatternRow * BYTES_PER_ROW IN
        shiftRegisters' = IF currentRowOffset + BYTES_PER_ROW <= PATTERN_BUFFER_SIZE
                          THEN writeShiftRegisters(RowAt(currentRowOffset))
                          ELSE shiftRegisters
    /\ currentPatternRow' = NextRow(currentPatternRow, numPatternRows)
    /\ UNCHANGED << browser, driver, eeprom, config, BYTES_PER_ROW, patternBuffer, leds, numPatternRows,
                    lastUpdateTime, animationSpeed, isPlaying, mode, retries,
                    wifiConnected, now, strip, httpStatus, serial, restartCause,
                    restarts, wsClient >>

loop ==
    /\ mode \in {"AP_SETUP", "STA_OPERATIONAL", "NO_SERVICE"}
    /\ TickDue
    /\ lastUpdateTime' = now
    /\ LET currentRowOffset == currentPatternRow * BYTES_PER_ROW IN
        shiftRegisters' = IF currentRowOffset + BYTES_PER_ROW <= PATTERN_BUFFER_SIZE
                          THEN writeShiftRegisters(RowAt(currentRowOffset))
                          ELSE shiftRegisters
    /\ currentPatternRow' = NextRow(currentPatternRow, numPatternRows)
    /\ UNCHANGED << browser, driver, eeprom, config, BYTES_PER_ROW, patternBuffer, leds, numPatternRows,
                    animationSpeed, isPlaying, mode, retries, wifiConnected, now,
                    strip, httpStatus, serial, restartCause, restarts, wsClient >>

\* What a read before the start of patternBuffer may find in each byte.
StrayBytes == { 0, 255 }

\* loop() of the revision generated by scripts/prepare_for_esp32.js: the row at
\* numPatternRows - 1 - currentPatternRow is written; an offset past the buffer
\* stops playback, one before it passes the test and reads foreign memory.
loopReversed ==
    /\ mode \in {"AP_SETUP", "STA_OPERATIONAL", "NO_SERVICE"}
    /\ TickDue
    /\ lastUpdateTime' = now
    /\ LET reversedRow == numPatternRows - 1 - currentPatternRow
           reversedOffset == reversedRow * BYTES_PER_ROW
       IN  IF reversedOffset + BYTES_PER_ROW <= PATTERN_BUFFER_SIZE
           THEN /\ IF reversedOffset >= 0
                   THEN shiftRegisters' = writeShiftRegisters(RowAt(reversedOffset))
                   ELSE \E stray \in [0 .. BYTES_PER_ROW - 1 -> StrayBytes] :
                            shiftRegisters' = writeShiftRegisters(stray)
                /\ UNCHANGED << browser, driver, isPlaying, serial >>
           ELSE /\ serial' = "Error: Animation index out of bounds! Stopping playback."
                /\ isPlaying' = FALSE
                /\ UNCHANGED shiftRegisters
    /\ currentPatternRow' = IF currentPatternRow + 1 >= numPatternRows
                            THEN 0 ELSE currentPatternRow + 1
    /\ UNCHANGED << browser, driver, eeprom, config, BYTES_PER_ROW, patternBuffer, leds, numPatternRows,
                    animationSpeed, mode, retries, wifiConnected, now, strip,
                    httpStatus, restartCause, restarts, wsClient >>

\* d milliseconds pass. millis() is read by the tick alone, which runs with
\* isPlaying set, and that happens in STA_OPERATIONAL only.
AdvanceClock(d) ==
    /\ mode = "STA_OPERATIONAL"
    /\ now' = (now + d) % ClockModulus
    /\ UNCHANGED << browser, driver, eeprom, config, BYTES_PER_ROW, leds, playback, mode, retries,
                    wifiConnected, shiftRegisters, strip, httpStatus, serial,
                    restartCause, restarts, wsClient >>

(***************************************************************************)
(* Inputs.                                                                 *)
(***************************************************************************)
Restrict(f, D) == [k \in D |-> f[k]]

\* "a"; FieldSize times "a" (one more than a field holds beside its NUL)
ShortSsid == << 97 >>
LongSsid == [i \in 1 .. FieldSize |-> 97]

\* What the EEPROM may hold at power-on: blank, a valid record, and records
\* with a tampered magic, a non-positive count or configured == false.
ValidRecord ==
    [magic |-> CONFIG_MAGIC, ssid |-> strncpy(ZeroField, ShortSsid, FieldSize - 1),
     password |-> strncpy(ZeroField, << 112 >>, FieldSize - 1),
     numValves |-> 8, numLeds |-> 1, configured |-> TRUE]

InitialRecords ==
    { BlankConfig,
      ValidRecord,
      [ValidRecord EXCEPT !.magic = CONFIG_MAGIC + 1],
      [ValidRecord EXCEPT !.magic = 0],
      [ValidRecord EXCEPT !.numValves = 0],
      [ValidRecord EXCEPT !.numLeds = 0 - 1],
      [ValidRecord EXCEPT !.configured = FALSE] }

\* POST /save bodies: every subset of the four fields, over these values.
\* "8" "16" "0" "x" and "1" "-1"
FormValves == { << 56 >>, << 49, 54 >>, << 48 >>, << 120 >> }
FormLeds == { << 49 >>, << 45, 49 >> }
FullRequests ==
    { [ssid |-> s, password |-> << 112, 119 >>, valves |-> v, leds |-> l] :
        s \in { << >>, ShortSsid, LongSsid }, v \in FormValves, l \in FormLeds }
Requests ==
    { Restrict(r, D) : r \in FullRequests,
                       D \in SUBSET { "ssid", "password", "valves", "leds" } }

\* Uploaded rows: len booleans, true at the indices in on.
RowOf(len, on) == [j \in 1 .. len |-> (j - 1) \in on]

\* A pattern of n rows of len valves, all different: row 1 has only the first
\* and the last valve on, row 2 is all false, row i > 2 has only valve i - 2 on.
PatternOf(n, len) ==
    [i \in 1 .. n |->
        RowOf(len, IF i = 1 THEN { 0, len - 1 }
                   ELSE IF i = 2 THEN { }
                   ELSE { i - 2 })]

RowLengths == { 8, 16 }

\* Row counts: none, one, what fills the buffer at two bytes and at one byte a
\* row, and one more than fits.
RowCounts ==
    { 0, 1, PATTERN_BUFFER_SIZE \div 2, PATTERN_BUFFER_SIZE, PATTERN_BUFFER_SIZE + 1 }

\* The patterns above and, for each length, the single all-false row.
Patterns ==
    { PatternOf(n, len) : n \in RowCounts, len \in RowLengths }
        \cup { << RowOf(len, { }) >> : len \in RowLengths }

LoadDocs == { [action |-> "load_pattern", pattern |-> p] : p \in Patterns }
                \cup { [action |-> "load_pattern"] }

ConfigDocs ==
    { [action |-> "config", valves |-> v, leds |-> l] :
        v \in { 0 - 8, 0, 8, 16 }, l \in { 0 - 1, 0, 1 } }
        \cup { [action |-> "config"],
               [action |-> "config", valves |-> 16],
               [action |-> "config", leds |-> 1] }

\* Half the range of the clock
SpeedDocs == { [action |-> "speed", value |-> ClockModulus \div 2] }

\* "#FF0000"
ColorDocs == { [action |-> "color", value |-> << 35, 70, 70, 48, 48, 48, 48 >>] }

\* Data no branch of onWsEvent handles: text that is no JSON, a document without
\* action, a document whose action no branch knows.
DroppedMessages ==
    { [error |-> TRUE],
      [error |-> FALSE, doc |-> [value |-> 5]],
      [error |-> FALSE, doc |-> [pattern |-> PatternOf(1, 8)]],
      [error |-> FALSE, doc |-> [action |-> "stop"]] }

\* Time passes in steps of half the range of the clock.
ClockSteps == { ClockModulus \div 2 }

(***************************************************************************)
(* The device from power-on.                                               *)
(***************************************************************************)
Init ==
    /\ eeprom \in InitialRecords
    /\ config = BlankConfig
    /\ BYTES_PER_ROW = DefaultBytesPerRow
    /\ patternBuffer = ZeroBytes(PATTERN_BUFFER_SIZE)
    /\ leds = NullPtr
    /\ numPatternRows = 0
    /\ currentPatternRow = 0
    /\ lastUpdateTime = 0
    /\ animationSpeed = DefaultAnimationSpeed
    /\ isPlaying = FALSE
    /\ mode = "RESET"
    /\ retries = 0
    /\ wifiConnected = FALSE
    /\ now = 0
    /\ shiftRegisters = ZeroBytes(DefaultBytesPerRow)
    /\ strip = << >>
    /\ httpStatus = 0
    /\ serial = ""
    /\ restartCause = "power_on"
    /\ restarts = 0
    /\ wsClient = FALSE
    /\ driver = DriverIdle(DefaultBytesPerRow)
    /\ browser = BrowserIdle

Boot ==
    \/ \E spiffsOk \in BOOLEAN, allocOk \in BOOLEAN : Setup(spiffsOk, allocOk)
    \/ WifiJoin
    \/ SetupSTAWait
    \/ SetupSTAFinish

\* The whole life of the device, with few control messages.
Next ==
    \/ Boot
    \/ \E req \in Requests : handleSave(req)
    \/ WsConnect
    \/ WsDisconnect
    \/ \E msg \in DroppedMessages : WsDrop(msg)
    \/ WsRebootToAp
    \/ \E doc \in { [action |-> "config", valves |-> 16, leds |-> 1],
                     [action |-> "config"] }, allocOk \in BOOLEAN : WsConfig(doc, allocOk)
    \/ WsPlay
    \/ \E allocOk \in BOOLEAN : WsPause(allocOk)
    \/ WsSpeed([action |-> "speed"])
    \/ \E doc \in { [action |-> "color"],
                     [action |-> "color", value |-> << 35, 70, 70 >>] } : WsColor(doc)
    \/ \E doc \in { [action |-> "load_pattern", pattern |-> PatternOf(2, 8)],
                     [action |-> "load_pattern"] } : WsLoadPattern(doc)
    \/ loop
    \/ \E d \in ClockSteps : AdvanceClock(d)

Spec == Init /\ [][Next]_vars

(***************************************************************************)
(* The control channel and the playback engine, with every control message *)
(* of the input sets: the device has booted on ValidRecord, joined the     *)
(* network and serves the channel; every allocation succeeds.              *)
(***************************************************************************)
InitControl ==
    /\ eeprom = ValidRecord
    /\ config = ValidRecord
    /\ BYTES_PER_ROW = SetupBytesPerRow(ValidRecord, DefaultBytesPerRow)
    /\ patternBuffer = ZeroBytes(PATTERN_BUFFER_SIZE)
    /\ leds = SetupLeds(ValidRecord, TRUE)
    /\ strip = SetupStrip(ValidRecord, TRUE, << >>)
    /\ numPatternRows = 0
    /\ currentPatternRow = 0
    /\ lastUpdateTime = 0
    /\ animationSpeed = DefaultAnimationSpeed
    /\ isPlaying = FALSE
    /\ mode = "STA_OPERATIONAL"
    /\ retries = 0
    /\ wifiConnected = TRUE
    /\ now = 0
    /\ shiftRegisters = ZeroBytes(DefaultBytesPerRow)
    /\ httpStatus = 0
    /\ serial = "WebSocket client connected"
    /\ restartCause = "power_on"
    /\ restarts = 0
    /\ wsClient = TRUE
    /\ driver = DriverIdle(BytesPerRowOf(ValidRecord.numValves))
    /\ browser = BrowserIdle

NextControl ==
    \/ WsRebootToAp
    \/ \E doc \in ConfigDocs : WsConfig(doc, TRUE)
    \/ WsPlay
    \/ WsPause(TRUE)
    \/ \E doc \in SpeedDocs : WsSpeed(doc)
    \/ \E doc \in ColorDocs : WsColor(doc)
    \/ \E doc \in LoadDocs : WsLoadPattern(doc)
    \/ loop
    \/ \E d \in ClockSteps : AdvanceClock(d)

SpecControl == InitControl /\ [][NextControl]_vars

(***************************************************************************)
(* Reconfiguration in depth: valve counts that are and are not multiples   *)
(* of 8, several LED counts, and LED allocations that succeed or fail,     *)
(* with one pattern to play.                                               *)
(***************************************************************************)
WideConfigDocs ==
    { [action |-> "config", valves |-> v, leds |-> l] :
        v \in { 8, 12, 16, 20 }, l \in { 1, 2, 3 } }

\* "#FF0000" and "#0a7Fc8"
WideColorDocs ==
    ColorDocs \cup { [action |-> "color", value |-> << 35, 48, 97, 55, 70, 99, 56 >>] }

NextConfig ==
    \/ \E doc \in WideConfigDocs, allocOk \in BOOLEAN : WsConfig(doc, allocOk)
    \/ \E doc \in WideColorDocs : WsColor(doc)
    \/ \E doc \in SpeedDocs : WsSpeed(doc)
    \/ WsLoadPattern([action |-> "load_pattern", pattern |-> PatternOf(2, 8)])
    \/ WsPlay
    \/ WsPause(TRUE)
    \/ loop
    \/ \E d \in ClockSteps : AdvanceClock(d)

SpecConfig == InitControl /\ [][NextConfig]_vars

(***************************************************************************)
(* Reconfiguration with every outcome of a failing LED allocation: the     *)
(* null pointer that setupHardware() tests for, and the end of the program *)
(* that a failing operator new brings.                                     *)
(***************************************************************************)
NextAlloc ==
    \/ NextConfig
    \/ \E doc \in WideConfigDocs : WsConfigAbort(doc)

SpecAlloc == InitControl /\ [][NextAlloc]_vars

(***************************************************************************)
(* The playback engine of the revision generated by                        *)
(* scripts/prepare_for_esp32.js, whose load_pattern, play and pause        *)
(* branches read as those of v4.1: uploads of 8-valve rows, play, pause    *)
(* and its own tick.                                                       *)
(***************************************************************************)
NextReversed ==
    \/ \E n \in RowCounts :
        WsLoadPattern([action |-> "load_pattern", pattern |-> PatternOf(n, 8)])
    \/ WsPlay
    \/ WsPause(TRUE)
    \/ loopReversed
    \/ \E d \in ClockSteps : AdvanceClock(d)

SpecReversed == InitControl /\ [][NextReversed]_vars

(***************************************************************************)
(* The playback tick in depth: intervals that are negative, zero, a small  *)
(* fraction of a clock step and exactly one clock step, with time passing  *)
(* in quarters of the range of the clock.                                  *)
(***************************************************************************)
QuarterRange == ClockModulus \div 4

\* speed messages: -1, 0, 10, a quarter of the range of the clock, and no value
TickSpeedDocs ==
    { [action |-> "speed", value |-> v] : v \in { 0 - 1, 0, 10, QuarterRange } }
        \cup { [action |-> "speed"] }

NextTick ==
    \/ \E n \in RowCounts :
        WsLoadPattern([action |-> "load_pattern", pattern |-> PatternOf(n, 8)])
    \/ WsPlay
    \/ WsPause(TRUE)
    \/ \E doc \in TickSpeedDocs : WsSpeed(doc)
    \/ loop
    \/ AdvanceClock(QuarterRange)

SpecTick == InitControl /\ [][NextTick]_vars

(***************************************************************************)
(* Power loss during EEPROM.commit(). EEPROM.put() changes the copy in RAM  *)
(* only; the commit erases the flash sector of the store and programs the  *)
(* 256 bytes of the copy as one page. A commit that never started leaves   *)
(* the old record, a finished one the new record, an interrupted one a     *)
(* page in which the fields programmed so far hold the new value and the   *)
(* others read as erased flash: 0xFF in every byte.                        *)
(***************************************************************************)
ErasedByte == 255

\* A Configuration read from erased flash: magic 0xFFFFFFFF (written here as the
\* int of the same 32 bits, -1), both counts -1, the flag non-zero.
ErasedConfig ==
    [magic |-> 0 - 1,
     ssid |-> [i \in 1 .. FieldSize |-> ErasedByte],
     password |-> [i \in 1 .. FieldSize |-> ErasedByte],
     numValves |-> 0 - 1, numLeds |-> 0 - 1, configured |-> TRUE]

ConfigFields == { "magic", "ssid", "password", "numValves", "numLeds", "configured" }

\* The page after the erase, with the fields in done programmed.
Programmed(new, done) ==
    [f \in ConfigFields |-> IF f \in done THEN new[f] ELSE ErasedConfig[f]]

\* What the store may hold when power is lost during the commit of new over old.
TornCommit(old, new) ==
    { old, new } \cup { Programmed(new, done) : done \in SUBSET ConfigFields }

\* POST /save bodies and config messages of the store specification.
StoreRequests ==
    { [ssid |-> ShortSsid, password |-> << 112, 119 >>, valves |-> << 49, 54 >>,
       leds |-> << 49 >>],
      [ssid |-> ShortSsid, valves |-> << 48 >>, leds |-> << 49 >>] }

StoreConfigDocs == { [action |-> "config", valves |-> 16, leds |-> 2] }

\* The records a commit may be writing in the current state: saveConfiguration()
\* from handleSave() and from the config branch, clearConfiguration() from
\* loadConfiguration(), from reboot_to_ap and from setupSTA().
PendingWrites ==
    (IF mode = "AP_SETUP"
     THEN { saveConfiguration(SaveFields(config, req)) :
                req \in { r \in StoreRequests : SaveAccepts(r) } }
     ELSE { })
    \cup
    (IF ChannelOpen
     THEN { BlankConfig } \cup
          { saveConfiguration([config EXCEPT !.numValves = doc.valves,
                                             !.numLeds = doc.leds]) :
                doc \in { d \in StoreConfigDocs : ConfigApplies(d.valves, d.leds) } }
     ELSE { })
    \cup
    (IF \/ mode = "RESET" /\ LoadRejects(eeprom)
        \/ mode = "STA_CONNECT" /\ ~wifiConnected /\ retries = 0
     THEN { BlankConfig }
     ELSE { })

\* Power is lost while new is being committed; the device starts again when power
\* returns, its outputs as they were.
CommitInterrupted(new) ==
    /\ new \in PendingWrites
    /\ eeprom' \in TornCommit(eeprom, new)
    /\ Restart("power_loss")
    /\ serial' = ""
    /\ UNCHANGED << browser, driver, shiftRegisters, strip, httpStatus >>

PowerLossInCommit == \E new \in PendingWrites : CommitInterrupted(new)

NextStore ==
    \/ Boot
    \/ \E req \in StoreRequests : handleSave(req)
    \/ WsConnect
    \/ \E doc \in StoreConfigDocs, allocOk \in BOOLEAN : WsConfig(doc, allocOk)
    \/ WsRebootToAp
    \/ PowerLossInCommit

SpecStore == Init /\ [][NextStore]_vars

(***************************************************************************)
(* The output driver in depth: writeShiftRegisters() one pin change at a   *)
(* time, for rows of one and of two bytes.                                 *)
(***************************************************************************)
ShiftRecords == { ValidRecord, [ValidRecord EXCEPT !.numValves = 16] }

\* rows whose bytes are 0x00, 0x01, 0x80 or 0x81
ShiftRows(bpr) == [0 .. bpr - 1 -> { 0, 1, 128, 129 }]

InitShift ==
    \E rec \in ShiftRecords :
        /\ eeprom = rec
        /\ config = rec
        /\ BYTES_PER_ROW = SetupBytesPerRow(rec, DefaultBytesPerRow)
        /\ patternBuffer = ZeroBytes(PATTERN_BUFFER_SIZE)
        /\ leds = SetupLeds(rec, TRUE)
        /\ strip = SetupStrip(rec, TRUE, << >>)
        /\ numPatternRows = 0
        /\ currentPatternRow = 0
        /\ lastUpdateTime = 0
        /\ animationSpeed = DefaultAnimationSpeed
        /\ isPlaying = FALSE
        /\ mode = "STA_OPERATIONAL"
        /\ retries = 0
        /\ wifiConnected = TRUE
        /\ now = 0
        /\ shiftRegisters = ZeroBytes(BytesPerRowOf(rec.numValves))
        /\ httpStatus = 0
        /\ serial = "WebSocket client connected"
        /\ restartCause = "power_on"
        /\ restarts = 0
        /\ wsClient = TRUE
        /\ driver = DriverIdle(BytesPerRowOf(rec.numValves))
        /\ browser = BrowserIdle

\* a call of writeShiftRegisters() with any row of the current width
WriteRow == \E rowData \in ShiftRows(BYTES_PER_ROW) : WriteBegin(rowData)

NextShift ==
    \/ WriteRow
    \/ ShiftOutBit
    \/ WriteEnd

SpecShift == InitShift /\ [][NextShift]_vars

(***************************************************************************)
(* The browser controller: Home (src/unnamed/part_004) with the prop-driven *)
(* HardwareControls (src/unnamed/part_002), joined to the control channel  *)
(* of the device. browser.wire holds the messages sent on the socket and   *)
(* not yet handled by onWsEvent, browser.uploadSent the actions the        *)
(* current upload has sent, browser.captured the patterns the pending      *)
(* timer callback closed over.                                             *)
(***************************************************************************)
\* Messages on the way to the device at once, and patterns in the sequence.
MaxWire == 3
MaxPatterns == 1

\* What addPattern can add: two rows of 8 valves, or one row of no valve.
UiPatterns == { PatternOf(2, 8), << << >> >> }

\* patterns.flatMap(p => p.patternData)
RECURSIVE FlatMap(_)
FlatMap(patterns) ==
    IF patterns = << >> THEN << >> ELSE Head(patterns) \o FlatMap(Tail(patterns))

\* patterns[0]?.patternData[0]?.length || 0
FirstRowLength(patterns) ==
    IF patterns = << >> THEN 0
    ELSE IF Head(patterns) = << >> THEN 0
    ELSE Len(Head(Head(patterns)))

\* sendCommand(command): the message goes out only on an open socket.
sendCommand(b, command) ==
    IF b.ready THEN [b EXCEPT !.wire = Append(@, command)] ELSE b

addPattern(p) ==
    /\ Len(browser.patterns) < MaxPatterns
    /\ browser' = [browser EXCEPT !.patterns = Append(@, p)]
    /\ UNCHANGED << eeprom, config, BYTES_PER_ROW, leds, playback, mode, retries,
                    wifiConnected, now, shiftRegisters, strip, httpStatus, serial,
                    restartCause, restarts, wsClient, driver >>

deletePattern ==
    /\ browser.patterns # << >>
    /\ browser' = [browser EXCEPT !.patterns = Tail(@)]
    /\ UNCHANGED << eeprom, config, BYTES_PER_ROW, leds, playback, mode, retries,
                    wifiConnected, now, shiftRegisters, strip, httpStatus, serial,
                    restartCause, restarts, wsClient, driver >>

\* handleConnect(): close an open socket (onclose clears isConnected, and the
\* effect on isConnected clears isPlaying), or open a new one.
handleConnect ==
    /\ ~browser.connecting
    /\ browser' = IF browser.ready
                  THEN [browser EXCEPT !.ready = FALSE, !.isConnected = FALSE,
                                       !.isPlaying = FALSE]
                  ELSE [browser EXCEPT !.connecting = TRUE]
    /\ UNCHANGED << eeprom, config, BYTES_PER_ROW, leds, playback, mode, retries,
                    wifiConnected, now, shiftRegisters, strip, httpStatus, serial,
                    restartCause, restarts, wsClient, driver >>

\* ws.current.onopen, then the effect on isConnected: the colour is sent.
onopen ==
    /\ browser.connecting
    /\ wsClient
    /\ Len(browser.wire) < MaxWire
    /\ browser' = sendCommand([browser EXCEPT !.ready = TRUE, !.connecting = FALSE,
                                              !.isConnected = TRUE],
                              [action |-> "color",
                               value |-> << 35, 55, 68, 70, 57, 70, 70 >>])
    /\ UNCHANGED << eeprom, config, BYTES_PER_ROW, leds, playback, mode, retries,
                    wifiConnected, now, shiftRegisters, strip, httpStatus, serial,
                    restartCause, restarts, wsClient, driver >>

\* handlePlayPause(): the flag follows the message only if the message went out.
handlePlayPause ==
    /\ Len(browser.wire) < MaxWire
    /\ LET newIsPlaying == ~browser.isPlaying
           sent == sendCommand(browser,
                               [action |-> IF newIsPlaying THEN "play" ELSE "pause"])
       IN  browser' = IF browser.ready THEN [sent EXCEPT !.isPlaying = newIsPlaying]
                      ELSE browser
    /\ UNCHANGED << eeprom, config, BYTES_PER_ROW, leds, playback, mode, retries,
                    wifiConnected, now, shiftRegisters, strip, httpStatus, serial,
                    restartCause, restarts, wsClient, driver >>

\* handleUploadSequence() up to setTimeout: nothing for an empty sequence or rows
\* of no valve; otherwise config goes out and the callback is armed.
handleUploadSequence ==
    /\ ~browser.isUploading
    /\ Len(browser.wire) < MaxWire
    /\ LET numValves == FirstRowLength(browser.patterns) IN
        browser' = IF browser.patterns = << >> \/ numValves = 0 \/ ~browser.ready
                   THEN browser
                   ELSE [sendCommand(browser, [action |-> "config", valves |-> numValves,
                                               leds |-> numValves])
                            EXCEPT !.isUploading = TRUE, !.timer = "send",
                                   !.captured = browser.patterns,
                                   !.uploadSent = << "config" >>]
    /\ UNCHANGED << eeprom, config, BYTES_PER_ROW, leds, playback, mode, retries,
                    wifiConnected, now, shiftRegisters, strip, httpStatus, serial,
                    restartCause, restarts, wsClient, driver >>

\* The callback of setTimeout(.., 200): load_pattern, then pause.
uploadCallback ==
    /\ browser.timer = "send"
    /\ Len(browser.wire) + 2 <= MaxWire
    /\ LET first == sendCommand(browser, [action |-> "load_pattern",
                                          pattern |-> FlatMap(browser.captured)])
           second == sendCommand(first, [action |-> "pause"])
       IN  browser' = [second EXCEPT !.timer = "finish",
                           !.uploadSent = IF browser.ready
                                          THEN @ \o << "load_pattern", "pause" >>
                                          ELSE @]
    /\ UNCHANGED << eeprom, config, BYTES_PER_ROW, leds, playback, mode, retries,
                    wifiConnected, now, shiftRegisters, strip, httpStatus, serial,
                    restartCause, restarts, wsClient, driver >>

\* setTimeout(() => setIsUploading(false), 500)
uploadFinished ==
    /\ browser.timer = "finish"
    /\ browser' = [browser EXCEPT !.timer = "none", !.isUploading = FALSE]
    /\ UNCHANGED << eeprom, config, BYTES_PER_ROW, leds, playback, mode, retries,
                    wifiConnected, now, shiftRegisters, strip, httpStatus, serial,
                    restartCause, restarts, wsClient, driver >>

\* onWsEvent on the message at the head of the wire: the config, play, pause,
\* color and load_pattern branches, every allocation succeeding.
onWsEventFromBrowser ==
    /\ browser.wire # << >>
    /\ ChannelOpen
    /\ browser' = [browser EXCEPT !.wire = Tail(@)]
    /\ UNCHANGED << mode, retries, wifiConnected, now, httpStatus, restartCause,
                    restarts, wsClient, driver, lastUpdateTime, animationSpeed >>
    /\ LET doc == Head(browser.wire) IN
        CASE doc.action = "config" ->
                LET cfg == [config EXCEPT !.numValves = doc.valves, !.numLeds = doc.leds]
                IN  IF ConfigApplies(doc.valves, doc.leds)
                    THEN /\ BYTES_PER_ROW' = SetupBytesPerRow(cfg, BYTES_PER_ROW)
                         /\ leds' = SetupLeds(cfg, TRUE)
                         /\ strip' = SetupStrip(cfg, TRUE, strip)
                         /\ config' = saveConfiguration(cfg)
                         /\ eeprom' = saveConfiguration(cfg)
                         /\ serial' = "Reconfigured"
                         /\ UNCHANGED << patternBuffer, numPatternRows, currentPatternRow,
                                         isPlaying, shiftRegisters >>
                    ELSE UNCHANGED << eeprom, config, BYTES_PER_ROW, leds, strip, serial,
                                      patternBuffer, numPatternRows, currentPatternRow,
                                      isPlaying, shiftRegisters >>
          [] doc.action = "play" ->
                /\ isPlaying' = TRUE
                /\ currentPatternRow' = 0
                /\ UNCHANGED << eeprom, config, BYTES_PER_ROW, leds, strip, serial,
                                patternBuffer, numPatternRows, shiftRegisters >>
          [] doc.action = "pause" ->
                /\ isPlaying' = FALSE
                /\ shiftRegisters' = writeShiftRegisters(ZeroBytes(BYTES_PER_ROW))
                /\ UNCHANGED << eeprom, config, BYTES_PER_ROW, leds, strip, serial,
                                patternBuffer, numPatternRows, currentPatternRow >>
          [] doc.action = "color" ->
                /\ IF leds = NullPtr
                   THEN UNCHANGED << leds, strip >>
                   ELSE LET shown == [i \in 1 .. config.numLeds |->
                                        ColorOf(strtol16(doc.value))]
                        IN  leds' = shown /\ strip' = shown
                /\ UNCHANGED << eeprom, config, BYTES_PER_ROW, serial, patternBuffer,
                                numPatternRows, currentPatternRow, isPlaying,
                                shiftRegisters >>
          [] doc.action = "load_pattern" ->
                /\ IF PatternTooLarge(Len(doc.pattern))
                   THEN /\ numPatternRows' = 0
                        /\ serial' = "Error: Pattern too large for buffer!"
                        /\ UNCHANGED patternBuffer
                   ELSE /\ numPatternRows' = Len(doc.pattern)
                        /\ serial' = "Loaded pattern"
                        /\ patternBuffer' = StoreRows(doc.pattern, 1, patternBuffer)
                /\ UNCHANGED << eeprom, config, BYTES_PER_ROW, leds, strip,
                                currentPatternRow, isPlaying, shiftRegisters >>

\* The device has joined the network and serves the channel; no client yet.
InitBrowser ==
    /\ eeprom = ValidRecord
    /\ config = ValidRecord
    /\ BYTES_PER_ROW = SetupBytesPerRow(ValidRecord, DefaultBytesPerRow)
    /\ patternBuffer = ZeroBytes(PATTERN_BUFFER_SIZE)
    /\ leds = SetupLeds(ValidRecord, TRUE)
    /\ strip = SetupStrip(ValidRecord, TRUE, << >>)
    /\ numPatternRows = 0
    /\ currentPatternRow = 0
    /\ lastUpdateTime = 0
    /\ animationSpeed = DefaultAnimationSpeed
    /\ isPlaying = FALSE
    /\ mode = "STA_OPERATIONAL"
    /\ retries = 0
    /\ wifiConnected = TRUE
    /\ now = 0
    /\ shiftRegisters = ZeroBytes(DefaultBytesPerRow)
    /\ httpStatus = 0
    /\ serial = "Connected! IP Address: "
    /\ restartCause = "power_on"
    /\ restarts = 0
    /\ wsClient = FALSE
    /\ driver = DriverIdle(BytesPerRowOf(ValidRecord.numValves))
    /\ browser = BrowserIdle

NextBrowser ==
    \/ \E p \in UiPatterns : addPattern(p)
    \/ deletePattern
    \/ handleConnect
    \/ browser.connecting /\ WsConnect
    \/ onopen
    \/ (~browser.ready /\ ~browser.connecting /\ browser.wire = << >>) /\ WsDisconnect
    \/ handlePlayPause
    \/ handleUploadSequence
    \/ uploadCallback
    \/ uploadFinished
    \/ onWsEventFromBrowser

SpecBrowser == InitBrowser /\ [][NextBrowser]_vars

(***************************************************************************)
(* Patterns whose rows are all different and none empty, under             *)
(* reconfiguration: what the tick writes after loads and changes of the    *)
(* row width have interleaved.                                             *)
(***************************************************************************)
\* rows of 8 valves with only valve i - 1 on in row i: packed bytes 1, 2, 4, ..
DensePattern(n) == [i \in 1 .. n |-> RowOf(8, { i - 1 })]

\* uploads of PATTERN_BUFFER_SIZE rows and of one row
RowsDocs ==
    { [action |-> "load_pattern", pattern |-> DensePattern(n)] :
        n \in { 1, PATTERN_BUFFER_SIZE } }

RowsConfigDocs ==
    { [action |-> "config", valves |-> v, leds |-> 1] : v \in { 8, 16 } }

NextRows ==
    \/ \E doc \in RowsDocs : WsLoadPattern(doc)
    \/ \E doc \in RowsConfigDocs : WsConfig(doc, TRUE)
    \/ WsPlay
    \/ WsPause(TRUE)
    \/ \E doc \in SpeedDocs : WsSpeed(doc)
    \/ loop
    \/ \E d \in ClockSteps : AdvanceClock(d)

SpecRows == InitControl /\ [][NextRows]_vars

(***************************************************************************)
(* The playback engine of the .ino revision, whose config, load_pattern,   *)
(* play and pause branches read as those of v4.1 and whose tick stops      *)
(* playback at a row that lies beyond the buffer.                          *)
(***************************************************************************)
\* loop() of the .ino revision: the row at currentPatternRow is written when it
\* lies within the buffer; otherwise the error is logged and isPlaying is
\* cleared, and nothing is written. The cursor moves on in both cases.
loopIno ==
    /\ mode \in {"AP_SETUP", "STA_OPERATIONAL", "NO_SERVICE"}
    /\ TickDue
    /\ lastUpdateTime' = now
    /\ LET currentRowOffset == currentPatternRow * BYTES_PER_ROW IN
        IF currentRowOffset + BYTES_PER_ROW <= PATTERN_BUFFER_SIZE
        THEN /\ shiftRegisters' = writeShiftRegisters(RowAt(currentRowOffset))
             /\ UNCHANGED << isPlaying, serial >>
        ELSE /\ serial' = "Error: Animation index out of bounds! Stopping playback."
             /\ isPlaying' = FALSE
             /\ UNCHANGED shiftRegisters
    /\ currentPatternRow' = NextRowWrap(currentPatternRow, numPatternRows)
    /\ UNCHANGED << browser, driver, eeprom, config, BYTES_PER_ROW, patternBuffer, leds,
                    numPatternRows, animationSpeed, mode, retries, wifiConnected, now,
                    strip, httpStatus, restartCause, restarts, wsClient >>

NextIno ==
    \/ \E doc \in RowsDocs : WsLoadPattern(doc)
    \/ \E doc \in RowsConfigDocs : WsConfig(doc, TRUE)
    \/ WsPlay
    \/ WsPause(TRUE)
    \/ \E doc \in SpeedDocs : WsSpeed(doc)
    \/ loopIno
    \/ \E d \in ClockSteps : AdvanceClock(d)

SpecIno == InitControl /\ [][NextIno]_vars

(***************************************************************************)
(* Properties of the pattern buffer and the playback cursor (SpecControl). *)
(***************************************************************************)
Operational == mode = "STA_OPERATIONAL"

\* C1: after any sequence of control commands and playback ticks, whenever
\* numPatternRows > 0 the cursor satisfies 0 <= currentPatternRow < numPatternRows.
\* (Violated: load_pattern replaces the row count and leaves the cursor.)
C1_CursorInRange ==
    numPatternRows > 0 =>
        (0 <= currentPatternRow /\ currentPatternRow < numPatternRows)

\* C2: a load_pattern whose row count R has R * BYTES_PER_ROW > PATTERN_BUFFER_SIZE
\* is rejected and numPatternRows keeps the value it had before the command.
\* (Violated: the rejecting branch sets numPatternRows to 0.)
C2_RejectKeepsRowCount ==
    [][\A doc \in LoadDocs :
        (WsLoadPattern(doc)
            /\ Len(JsonArrayOf(doc, "pattern")) * BYTES_PER_ROW > PATTERN_BUFFER_SIZE)
        => (serial' = "Error: Pattern too large for buffer!"
            /\ numPatternRows' = numPatternRows)]_vars

\* C3: a load_pattern whose row count R has R * BYTES_PER_ROW > PATTERN_BUFFER_SIZE
\* leaves every byte of patternBuffer unchanged.
C3_RejectKeepsBuffer ==
    [][\A doc \in LoadDocs :
        (WsLoadPattern(doc)
            /\ Len(JsonArrayOf(doc, "pattern")) * BYTES_PER_ROW > PATTERN_BUFFER_SIZE)
        => (serial' = "Error: Pattern too large for buffer!"
            /\ \A k \in 0 .. PATTERN_BUFFER_SIZE - 1 : patternBuffer'[k] = patternBuffer[k])]_vars

\* A rejected upload was the last thing logged and the buffer still holds rows
\* of an earlier pattern.
C3_Witness ==
    /\ Operational
    /\ serial = "Error: Pattern too large for buffer!"
    /\ \E k \in 0 .. PATTERN_BUFFER_SIZE - 1 : patternBuffer[k] # 0

\* C4: after any sequence of control commands, also a config that changes the
\* valve count after a pattern was loaded,
\* numPatternRows * BYTES_PER_ROW <= PATTERN_BUFFER_SIZE.
\* (Violated: config recomputes BYTES_PER_ROW and keeps numPatternRows.)
C4_RowsFitBuffer == numPatternRows * BYTES_PER_ROW <= PATTERN_BUFFER_SIZE

\* C5: every load_pattern of R rows with R * BYTES_PER_ROW <= PATTERN_BUFFER_SIZE,
\* equality included, is accepted and leaves numPatternRows = R.
C5_FittingLoadAccepted ==
    [][\A doc \in LoadDocs :
        (WsLoadPattern(doc)
            /\ Len(JsonArrayOf(doc, "pattern")) * BYTES_PER_ROW <= PATTERN_BUFFER_SIZE)
        => (serial' = "Loaded pattern"
            /\ numPatternRows' = Len(JsonArrayOf(doc, "pattern")))]_vars

\* An accepted pattern fills the buffer exactly.
C5_Witness ==
    /\ Operational
    /\ serial = "Loaded pattern"
    /\ numPatternRows > 0
    /\ numPatternRows * BYTES_PER_ROW = PATTERN_BUFFER_SIZE

\* The valves read back from the bytes of one row.
UnpackRow(rowData, valves) ==
    [j \in 1 .. valves |->
        Bit(rowData[(j - 1) \div BITS_PER_BYTE], (j - 1) % BITS_PER_BYTE) = 1]

BootStep == mode = "RESET" /\ mode' # "RESET"

\* C7: loadConfiguration on a stored record whose magic differs from CONFIG_MAGIC,
\* or whose numValves <= 0 or numLeds <= 0, leaves the all-zero record both in
\* the EEPROM and in memory, and this boot enters AP_SETUP.
\* (Violated: when SPIFFS does not mount, setup() returns before the dispatch.)
C7_RejectedRecordBlankThenAP ==
    [][(BootStep
        /\ (eeprom.magic # CONFIG_MAGIC \/ eeprom.numValves <= 0 \/ eeprom.numLeds <= 0))
       => (eeprom' = BlankConfig /\ config' = BlankConfig /\ mode' = "AP_SETUP")]_vars

\* C8: a boot in STA_OPERATIONAL that gets no WiFi connection within its retry
\* budget clears the persisted configuration and restarts, and the following boot
\* enters AP_SETUP; the control channel is never started without a connection.
\* (Violated: the following boot serves nothing when SPIFFS does not mount.)
C8_JoinFailureFallsBackToAP ==
    [][/\ (mode = "STA_CONNECT" /\ ~wifiConnected /\ mode' # "STA_CONNECT")
            => (retries = 0 /\ eeprom' = BlankConfig /\ mode' = "RESET")
       /\ (BootStep /\ restartCause = "join_failed") => mode' = "AP_SETUP"]_vars

\* The fields the record admits: at most FieldSize - 1 characters and a NUL.
FitsField(str) == Len(str) <= FieldSize - 1

\* C9: in AP_SETUP an accepted POST /save persists a record carrying the submitted
\* ssid, password, valve count and led count (strings the record admits) with
\* valid magic and configured = true, then restarts the device without entering
\* STA_OPERATIONAL, and the next boot selects STA_OPERATIONAL.
\* (Violated: the next boot serves nothing when SPIFFS does not mount.)
C9_SaveThenStation ==
    [][/\ \A req \in Requests :
            (handleSave(req) /\ httpStatus' = 200
                /\ FitsField(req.ssid)
                /\ (hasParam(req, "password") => FitsField(req.password)))
            => /\ CStr(eeprom'.ssid) = req.ssid
               /\ CStr(eeprom'.password) =
                    (IF hasParam(req, "password") THEN req.password ELSE << >>)
               /\ eeprom'.numValves = toInt(req.valves)
               /\ eeprom'.numLeds = toInt(req.leds)
               /\ eeprom'.magic = CONFIG_MAGIC
               /\ eeprom'.configured
               /\ mode' = "RESET"
       /\ (BootStep /\ restartCause = "save") => mode' = "STA_CONNECT"]_vars

\* C10: a POST /save that lacks ssid, valves or leds, or carries an empty ssid or
\* a non-positive valves or leds value, is answered 400; neither the in-memory
\* configuration nor the persisted record changes and no restart happens.
C10_BadSaveRejected ==
    [][\A req \in Requests :
        (handleSave(req)
            /\ (\/ ~hasParam(req, "ssid") \/ ~hasParam(req, "valves")
                \/ ~hasParam(req, "leds")
                \/ Len(req.ssid) = 0
                \/ toInt(req.valves) <= 0
                \/ toInt(req.leds) <= 0))
        => /\ httpStatus' = 400
           /\ config' = config
           /\ eeprom' = eeprom
           /\ mode' = "AP_SETUP"
           /\ restarts' = restarts]_vars

\* The setup form has answered 400 and the device is still in AP_SETUP with the
\* record it booted on.
C10_Witness ==
    /\ mode = "AP_SETUP"
    /\ httpStatus = 400
    /\ eeprom = config

C12_PlayResetsCursor ==
    [][WsPlay =>
        /\ isPlaying' /\ currentPatternRow' = 0
        /\ patternBuffer' = patternBuffer
        /\ numPatternRows' = numPatternRows
        /\ animationSpeed' = animationSpeed
        /\ leds' = leds /\ strip' = strip
        /\ config' = config /\ eeprom' = eeprom]_vars

\* Playing a pattern of several rows, the cursor is at 0 although the row written
\* last is row 0: play was received after the first tick.
C12_Witness ==
    /\ Operational
    /\ isPlaying
    /\ numPatternRows > 1
    /\ currentPatternRow = 0
    /\ \E k \in 0 .. BYTES_PER_ROW - 1 : RowAt(0)[k] # 0
    /\ shiftRegisters = RowAt(0)

\* Playback is stopped and the row latched last is BYTES_PER_ROW zero bytes.
Paused == ~isPlaying /\ shiftRegisters = ZeroBytes(BYTES_PER_ROW)

ConfigCountBad(doc, key) == IF key \in DOMAIN doc THEN doc[key] <= 0 ELSE TRUE

\* C14: a config command whose valves or leds value is non-positive or absent, or
\* whose values both equal the current counts, is ignored: the in-memory
\* configuration, BYTES_PER_ROW, the LED buffer and the persisted record are
\* unchanged (and nothing is logged).
C14_ConfigIgnored ==
    [][\A doc \in ConfigDocs :
        (WsConfig(doc, TRUE)
            /\ (\/ ConfigCountBad(doc, "valves")
                \/ ConfigCountBad(doc, "leds")
                \/ (doc.valves = config.numValves /\ doc.leds = config.numLeds)))
        => /\ config' = config
           /\ BYTES_PER_ROW' = BYTES_PER_ROW
           /\ leds' = leds /\ strip' = strip
           /\ eeprom' = eeprom
           /\ serial' = serial]_vars

\* A device reconfigured for 16 valves whose LEDs have since been given a colour
\* and which has loaded a pattern: a config repeating its counts arrives in a
\* state that applying it would change.
C14_Witness ==
    /\ Operational
    /\ config.numValves = 16 /\ config.numLeds = 1
    /\ leds # NullPtr
    /\ leds[1] # Black
    /\ serial = "Loaded pattern"

C16_MalformedDropped ==
    [][\A msg \in DroppedMessages :
        (WsDrop(msg)
            /\ (IF msg.error THEN TRUE ELSE "action" \notin DOMAIN msg.doc))
        => /\ UNCHANGED << playback, shiftRegisters >>
           /\ UNCHANGED << leds, strip >>
           /\ UNCHANGED << config, BYTES_PER_ROW, eeprom >>
           /\ restarts' = restarts
           /\ wsClient'
           /\ ChannelOpen']_vars

\* An unparsable message was logged while a pattern was playing, and the client
\* is still connected.
C16_Witness ==
    /\ ChannelOpen
    /\ serial = "deserializeJson() failed: "
    /\ isPlaying
    /\ numPatternRows > 0

\* C17: no control message other than reboot_to_ap terminates or restarts the
\* process, whatever fields it carries or omits: while the channel serves a
\* client, the only step that restarts the device is the reboot_to_ap command.
\* (Violated: a color message without value makes strtol read through a null
\* pointer when the LED array is allocated.)
C17_OnlyRebootRestarts ==
    [][(ChannelOpen /\ restarts' # restarts) => WsRebootToAp]_vars

\* C18: after every accepted load_pattern command, in STOPPED or in PLAYING,
\* currentPatternRow = 0.
\* (Violated: the load_pattern branch does not assign the cursor.)
C18_LoadResetsCursor ==
    [][\A doc \in LoadDocs :
        (WsLoadPattern(doc)
            /\ Len(JsonArrayOf(doc, "pattern")) * BYTES_PER_ROW <= PATTERN_BUFFER_SIZE)
        => currentPatternRow' = 0]_vars

\* C19: load_pattern, accepted or rejected, never changes the playback state:
\* isPlaying after the command equals isPlaying before it.
C19_LoadKeepsPlayState ==
    [][\A doc \in LoadDocs : WsLoadPattern(doc) => isPlaying' = isPlaying]_vars

\* An upload was rejected in PLAYING, after the tick had advanced the cursor.
C19_Witness ==
    /\ ChannelOpen
    /\ isPlaying
    /\ currentPatternRow > 0
    /\ serial = "Error: Pattern too large for buffer!"

\* C20: in each firmware revision the playback engine emits rows in buffer order
\* starting at index 0: after load_pattern of R rows followed by play, the k-th
\* row written to the driver is buffer row (k mod R). play sets the cursor to 0
\* and every tick advances it by one modulo R, so at the k-th tick the cursor is
\* k mod R: every tick with the cursor in range writes the row at the cursor.
\* (Violated: the tick of scripts/prepare_for_esp32.js writes row R - 1 - cursor.)
C20_RowsInBufferOrder ==
    [][((loop \/ loopReversed)
            /\ currentPatternRow < numPatternRows
            /\ numPatternRows * BYTES_PER_ROW <= PATTERN_BUFFER_SIZE)
        => shiftRegisters' = RowAt(currentPatternRow * BYTES_PER_ROW)]_vars

(***************************************************************************)
(* Properties of the playback tick.                                        *)
(***************************************************************************)
\* The cursor after n advances with no command in between, and how many of
\* these advances left it at 0.
RECURSIVE Advances(_, _, _)
Advances(c, rows, n) ==
    IF n = 0 THEN c ELSE Advances(NextRow(c, rows), rows, n - 1)

RECURSIVE ZeroVisits(_, _, _)
ZeroVisits(c, rows, n) ==
    IF n = 0 THEN 0
    ELSE (IF NextRow(c, rows) = 0 THEN 1 ELSE 0)
            + ZeroVisits(NextRow(c, rows), rows, n - 1)

\* C21: cyclic law of the advance. A tick in PLAYING with row_count > 0 and the
\* cursor c < row_count sets the cursor to (c + 1) mod row_count (in v4.1 and in
\* the .ino revision alike), so row_count advances with no command in between
\* bring the cursor back to c, and leave it at 0 exactly once on the way.
C21_CyclicAdvance ==
    [][(loop /\ currentPatternRow < numPatternRows)
        => /\ currentPatternRow' = (currentPatternRow + 1) % numPatternRows
           /\ NextRowWrap(currentPatternRow, numPatternRows) = currentPatternRow'
           /\ Advances(currentPatternRow, numPatternRows, numPatternRows)
                = currentPatternRow
           /\ ZeroVisits(currentPatternRow, numPatternRows, numPatternRows) = 1]_vars

\* Playing a pattern of three rows or more, the tick has written the last row,
\* which has an open valve, and the cursor is back at 0.
C21_Witness ==
    /\ Operational
    /\ isPlaying
    /\ numPatternRows >= 3
    /\ numPatternRows * BYTES_PER_ROW <= PATTERN_BUFFER_SIZE
    /\ currentPatternRow = 0
    /\ shiftRegisters = RowAt((numPatternRows - 1) * BYTES_PER_ROW)
    /\ \E k \in 0 .. BYTES_PER_ROW - 1 : shiftRegisters[k] # 0

\* C22: each execution of the playback tick writes at most one row and advances
\* the cursor by one step at most, however many multiples of the interval have
\* elapsed since the last advance: the tick takes the current time as the time of
\* the last advance and moves the cursor one row on, and no further tick is due
\* until time has passed again.
C22_NoCatchUp ==
    [][loop
        => /\ lastUpdateTime' = now
           /\ currentPatternRow' = (currentPatternRow + 1) % numPatternRows
           /\ ~TickDue']_vars

\* With an interval of 10 ms a quarter of the clock's range had passed when the
\* first tick after play ran: it wrote row 0 and left the cursor at 1.
C22_Witness ==
    /\ Operational
    /\ isPlaying
    /\ animationSpeed = 10
    /\ numPatternRows > 1
    /\ currentPatternRow = 1
    /\ lastUpdateTime = now
    /\ now = QuarterRange
    /\ shiftRegisters = RowAt(0)
    /\ shiftRegisters[0] # 0

(***************************************************************************)
(* Properties of the LEDs (SpecConfig).                                    *)
(***************************************************************************)
Red == << 255, 0, 0 >>

\* the colour each message of WideColorDocs names, channel by channel
NamedColor(doc) ==
    IF doc.value = << 35, 70, 70, 48, 48, 48, 48 >> THEN Red ELSE << 10, 127, 200 >>

\* C23: with the LED buffer allocated, color with #RRGGBB sets every LED to
\* (RR, GG, BB) and flushes the LEDs to the strip (#FF0000 gives pure red on every
\* LED); play, pause and speed leave the colour of the LEDs unchanged.
C23_ColorSetsEveryLed ==
    [][/\ \A doc \in WideColorDocs :
            (WsColor(doc) /\ leds # NullPtr)
                => /\ DOMAIN leds' = 1 .. config.numLeds
                   /\ \A i \in 1 .. config.numLeds : leds'[i] = NamedColor(doc)
                   /\ strip' = leds'
       /\ (WsPlay \/ WsPause(TRUE) \/ \E doc \in SpeedDocs : WsSpeed(doc))
            => UNCHANGED << leds, strip >>]_vars

\* Three LEDs are red on the strip while a pattern plays at the speed a speed
\* message has set.
C23_Witness ==
    /\ Operational
    /\ config.numLeds = 3
    /\ leds = [i \in 1 .. 3 |-> Red]
    /\ strip = leds
    /\ isPlaying
    /\ animationSpeed # DefaultAnimationSpeed

\* C24: after any sequence of commands animationSpeed is positive: a speed command
\* whose value is 0, negative or missing does not leave it at a non-positive value.
\* (Violated: the speed branch assigns doc["value"] as it comes.)
C24_SpeedPositive == animationSpeed > 0

\* C29: a tick that finds the elapsed time equal to the interval writes a row and
\* advances: the tick is due when elapsed >= interval.
\* (Violated: loop() tests elapsed > animationSpeed.)
C29_TickAtInterval ==
    ( /\ Operational
      /\ config.configured
      /\ isPlaying
      /\ numPatternRows > 0
      /\ animationSpeed > 0
      /\ Elapsed = animationSpeed )
        => TickDue

(***************************************************************************)
(* Properties of the stored record.                                        *)
(***************************************************************************)
\* C25: every record that POST /save or the config command writes has a valve
\* count that is a positive multiple of 8.
\* (Violated: both writers accept every positive count.)
C25_WrittenValvesMultipleOf8 ==
    [][(\E doc \in WideConfigDocs, allocOk \in BOOLEAN : WsConfig(doc, allocOk))
          /\ eeprom' # eeprom
        => /\ eeprom'.numValves > 0
           /\ eeprom'.numValves % 8 = 0]_vars

(***************************************************************************)
(* Properties of the boot.                                                 *)
(***************************************************************************)
StationMode == { "STA_CONNECT", "STA_OPERATIONAL" }

\* C26: every boot enters exactly one of AP_SETUP and STA_OPERATIONAL, AP_SETUP
\* exactly when configured is false after the load, and the mode does not change
\* until the device restarts: no boot ends serving neither the setup form nor the
\* control channel.
\* (Violated: when SPIFFS does not mount, setup() returns before the dispatch.)
C26_BootEntersOneMode ==
    [][/\ BootStep
            => /\ mode' \in { "AP_SETUP" } \cup StationMode
               /\ (mode' = "AP_SETUP") <=> ~config'.configured
       /\ (mode = "AP_SETUP" /\ mode' # mode) => mode' = "RESET"
       /\ (mode \in StationMode /\ mode' # mode)
            => mode' \in { "RESET", "STA_OPERATIONAL" }]_vars

LoadDoc28 == [action |-> "load_pattern", pattern |-> PatternOf(2, 8)]

\* C28: when the allocation of the LED buffer fails during a reconfiguration the
\* device keeps running with the LEDs disabled: a later color command changes no
\* state, and play, pause, speed, load_pattern and the playback tick do what they
\* do when the allocation succeeded.
\* (Violated: a failing operator new ends the program and the chip restarts.)
C28_RunsWithoutLeds ==
    [][/\ \A doc \in WideConfigDocs :
            ((WsConfig(doc, FALSE) \/ WsConfigAbort(doc))
                /\ ConfigApplies(doc.valves, doc.leds))
                => /\ leds' = NullPtr
                   /\ mode' = mode /\ wsClient' = wsClient /\ restarts' = restarts
                   /\ playback' = playback
       /\ leds = NullPtr =>
            /\ (\E doc \in WideColorDocs : WsColor(doc)) => UNCHANGED vars
            /\ WsPlay => (isPlaying' /\ currentPatternRow' = 0 /\ leds' = NullPtr)
            /\ WsPause(TRUE)
                => /\ ~isPlaying'
                   /\ shiftRegisters' = ZeroBytes(BYTES_PER_ROW)
                   /\ leds' = NullPtr
            /\ \A doc \in SpeedDocs :
                 WsSpeed(doc) => (animationSpeed' = doc.value /\ leds' = NullPtr)
            /\ (WsLoadPattern(LoadDoc28) /\ 2 * BYTES_PER_ROW <= PATTERN_BUFFER_SIZE)
                => /\ numPatternRows' = 2
                   /\ patternBuffer'[0] = 129 /\ patternBuffer'[BYTES_PER_ROW] = 0
                   /\ leds' = NullPtr
            /\ loop
                => /\ currentPatternRow' = NextRow(currentPatternRow, numPatternRows)
                   /\ lastUpdateTime' = now
                   /\ (currentPatternRow * BYTES_PER_ROW + BYTES_PER_ROW <= PATTERN_BUFFER_SIZE
                        => shiftRegisters' = RowAt(currentPatternRow * BYTES_PER_ROW))
                   /\ leds' = NullPtr]_vars

(***************************************************************************)
(* Properties of the output driver (SpecShift).                            *)
(***************************************************************************)
\* C30: writeShiftRegisters lowers the latch, shifts exactly BYTES_PER_ROW bytes in
\* descending index order (byte BYTES_PER_ROW - 1 first, byte 0 last), each most
\* significant bit first, and raises the latch only after the last byte has been
\* shifted: the latch is low from the first bit to the last, and when it rises
\* the log of the bits clocked out is the whole row in that order and output q
\* of register k carries bit q of byte k.
C30_LatchAfterWholeRow ==
    /\ [](driver.pc = "shift" => driver.latch = "LOW")
    /\ [][WriteRow => (driver'.latch = "LOW" /\ driver'.sent = << >>)]_vars
    /\ [][WriteEnd
            => /\ driver'.latch = "HIGH"
               /\ Len(driver.sent) = BITS_PER_BYTE * BYTES_PER_ROW
               /\ \A n \in 1 .. Len(driver.sent) :
                    /\ driver.sent[n][1] = BYTES_PER_ROW - 1 - ((n - 1) \div BITS_PER_BYTE)
                    /\ driver.sent[n][2] = 7 - ((n - 1) % BITS_PER_BYTE)
               /\ \A k \in 0 .. BYTES_PER_ROW - 1 :
                    shiftRegisters'[k] = driver.rowData[k]
               /\ shiftRegisters' = writeShiftRegisters(driver.rowData)]_vars

\* The two-byte row [0x01, 0x80] has been latched: 16 bits went out, the first of
\* them bit 7 of byte 1, the last bit 0 of byte 0.
C30_Witness ==
    /\ BYTES_PER_ROW = 2
    /\ driver.pc = "idle"
    /\ driver.latch = "HIGH"
    /\ Len(driver.sent) = 16
    /\ driver.sent[1] = << 1, 7 >>
    /\ driver.sent[16] = << 0, 0 >>
    /\ shiftRegisters[0] = 1
    /\ shiftRegisters[1] = 128

(***************************************************************************)
(* Properties of the browser controller (SpecBrowser).                     *)
(***************************************************************************)
\* C31: the upload sequence of the browser controller pauses playback before it
\* sends load_pattern: on every upload the pause message precedes the
\* load_pattern message on the socket and the config message precedes both, and
\* nothing at all is sent when the socket is not open.
\* (Violated: the callback sends load_pattern first and pause after it.)
C31_PauseBeforeLoad ==
    /\ [](\A i \in 1 .. Len(browser.uploadSent) :
            /\ browser.uploadSent[i] = "load_pattern"
                => \E k \in 1 .. i - 1 : browser.uploadSent[k] = "pause"
            /\ browser.uploadSent[i] \in { "load_pattern", "pause" }
                => browser.uploadSent[1] = "config")
    /\ [][(~browser.ready /\ (handleUploadSequence \/ uploadCallback))
            => browser'.wire = browser.wire]_vars

(***************************************************************************)
(* Properties of the rows written under reconfiguration (SpecRows).        *)
(***************************************************************************)
\* The pattern of the load_pattern accepted last: the uploads of RowsDocs differ
\* in their row counts, and an accepted upload leaves its own in numPatternRows.
LastAccepted == DensePattern(numPatternRows)

\* C32: every row the playback tick writes to the driver equals, byte for byte,
\* packed row number currentPatternRow of the load_pattern accepted last, after
\* any interleaving of config, load_pattern, play, pause and speed with ticks.
\* (Violated: config changes the row width under a loaded buffer, and
\* load_pattern leaves the cursor where the earlier pattern had it.)
C32_TickWritesLoadedRow ==
    [][(loop /\ currentPatternRow * BYTES_PER_ROW + BYTES_PER_ROW <= PATTERN_BUFFER_SIZE)
        => /\ currentPatternRow < numPatternRows
           /\ shiftRegisters' = PackRow(LastAccepted[currentPatternRow + 1])]_vars

(***************************************************************************)
(* Properties of the stored record and of the row width over the whole     *)
(* life of the device (Spec).                                              *)
(***************************************************************************)
\* A record as clearConfiguration() leaves it, as far as magic, flag and counts go.
IsBlank(rec) ==
    rec.magic = 0 /\ ~rec.configured /\ rec.numValves = 0 /\ rec.numLeds = 0

\* A record with the magic, positive counts and the configured flag.
IsFullyValid(rec) ==
    rec.magic = CONFIG_MAGIC /\ rec.numValves > 0 /\ rec.numLeds > 0 /\ rec.configured

\* C33: across boots, POST /save requests, control commands and failures to join
\* the network, every record the firmware stores is blank or fully valid, and a
\* blank or fully valid record is never followed by one that is neither: no
\* record with the magic and configured == false or a count <= 0 is stored.
C33_StoredBlankOrValid ==
    /\ [][eeprom' # eeprom => (IsBlank(eeprom') \/ IsFullyValid(eeprom'))]_vars
    /\ [][(IsBlank(eeprom) \/ IsFullyValid(eeprom))
            => (IsBlank(eeprom') \/ IsFullyValid(eeprom'))]_vars

\* POST /save has stored a record over a blank one and restarted the device.
C33_Witness ==
    /\ restartCause = "save" /\ mode = "RESET"
    /\ IsFullyValid(eeprom) /\ eeprom.numValves = 16

\* C34: once loadConfiguration() has run at boot, and after every handler that
\* returns without restarting the device, the configuration in memory equals the
\* stored record field for field.
C34_ConfigEqualsStored == mode # "RESET" => config = eeprom

\* A config command has changed the counts and the device runs on.
C34_Witness ==
    /\ mode = "STA_OPERATIONAL" /\ serial = "Reconfigured"
    /\ config.numValves = 16 /\ eeprom.numValves = 16

\* C35: while the device is in STA_OPERATIONAL, where the control channel runs,
\* BYTES_PER_ROW is config.numValves / 8 rounded up and config.numValves is
\* positive: the compiled-in width of 2 is in effect only for counts it matches.
C35_RowWidthMatchesValves ==
    mode = "STA_OPERATIONAL"
        => /\ config.numValves > 0
           /\ BYTES_PER_ROW * BITS_PER_BYTE >= config.numValves
           /\ (BYTES_PER_ROW - 1) * BITS_PER_BYTE < config.numValves

\* The device serves a client on 8 valves, at a width other than the default.
C35_Witness ==
    /\ mode = "STA_OPERATIONAL" /\ wsClient
    /\ config.numValves = 8 /\ BYTES_PER_ROW = 1 /\ BYTES_PER_ROW # DefaultBytesPerRow

(***************************************************************************)
(* Properties of the .ino revision (SpecIno).                              *)
(***************************************************************************)
\* Every byte latched into the valve driver is zero.
AllValvesClosed == \A k \in DOMAIN shiftRegisters : shiftRegisters[k] = 0

\* C36: in the .ino revision, starting with all valves closed at boot, the row
\* written last is all-zero whenever isPlaying is false, and every step that
\* takes isPlaying from true to false, the out-of-bounds stop of the tick
\* included, leaves all valves closed.
\* (Violated: the out-of-bounds stop clears isPlaying and writes no row.)
C36_StoppedMeansClosed ==
    /\ [](~isPlaying => AllValvesClosed)
    /\ [][(isPlaying /\ ~isPlaying') => (\A k \in DOMAIN shiftRegisters' : shiftRegisters'[k] = 0)]_vars

(***************************************************************************)
(* Properties of the offset of the reversed tick (SpecReversed).           *)
(***************************************************************************)
\* The offset the reversed tick computes from the cursor.
ReversedOffset == (numPatternRows - 1 - currentPatternRow) * BYTES_PER_ROW

\* C37: in the revision with reverse-order playback, the offset the tick hands to
\* writeShiftRegisters satisfies 0 <= offset and
\* offset + BYTES_PER_ROW <= PATTERN_BUFFER_SIZE, whatever commands and ticks
\* came before.
\* (Violated: the tick tests the upper bound only, and a cursor left beyond a
\* shorter upload makes the offset negative.)
C37_OffsetWithinBuffer ==
    [][(loopReversed /\ (ReversedOffset + BYTES_PER_ROW <= PATTERN_BUFFER_SIZE))
        => (0 <= ReversedOffset)]_vars

(***************************************************************************)
(* Properties of the tick across the wrap of the clock (SpecTick).         *)
(***************************************************************************)
\* The milliseconds that have passed since the last advance when the clock has
\* wrapped at most once since then.
MsSinceAdvance ==
    IF now >= lastUpdateTime
    THEN now - lastUpdateTime
    ELSE now + ClockModulus - lastUpdateTime

\* C38: with the clock wrapping modulo 2^ClockBits, whenever playback runs with a
\* pattern loaded and a positive interval and more than the interval has passed
\* since the last advance, the tick is due, and the tick taken with the clock
\* below lastUpdateTime writes the row at the cursor and takes the time.
C38_AdvancesAcrossWrap ==
    /\ []( ( /\ Operational
             /\ config.configured
             /\ isPlaying
             /\ numPatternRows > 0
             /\ animationSpeed > 0
             /\ MsSinceAdvance > animationSpeed )
           => TickDue )
    /\ [][(loop /\ now < lastUpdateTime)
            => /\ shiftRegisters' = RowAt(currentPatternRow * BYTES_PER_ROW)
               /\ lastUpdateTime' = now
               /\ currentPatternRow' = NextRow(currentPatternRow, numPatternRows)]_vars

\* The clock has wrapped to 0 after the advance before, and the tick taken at 0
\* has written row 0 and moved the cursor to 1.
C38_Witness ==
    /\ Operational
    /\ isPlaying
    /\ animationSpeed = 10
    /\ now = 0
    /\ lastUpdateTime = 0
    /\ numPatternRows > 1
    /\ currentPatternRow = 1
    /\ shiftRegisters = RowAt(0)
    /\ shiftRegisters[0] # 0

(***************************************************************************)
(* Properties of the play state shown by the browser (SpecBrowser).        *)
(***************************************************************************)
\* C39: while the socket is connected and nothing is on its way to the device,
\* the isPlaying of the UI equals the isPlaying of the firmware after every UI
\* action (connect, play/pause toggle, upload); after an upload, which sends
\* pause, the UI shows paused.
\* (Violated: the upload's pause does not reach the isPlaying state of
\* HardwareControls, and a reconnect resets it while the device plays on.)
C39_UiMatchesFirmware ==
    /\ [](( /\ browser.ready
            /\ browser.isConnected
            /\ browser.wire = << >>
            /\ browser.timer = "none" )
          => browser.isPlaying = isPlaying)
    /\ [][uploadCallback => ~browser'.isPlaying]_vars

====
